---- MODULE Spec2Model ----
(***************************************************************************)
(* Rate calculator of the flexi dashboard (TOU rates, subscription         *)
(* quantities, savings ledger), modelled from the rate-calculator module.  *)
(*                                                                         *)
(* Numbers.  A JavaScript number is modelled as a record [nan, v]: either  *)
(* NaN or an exact fixed-point integer v.  Rates and prices are in units   *)
(* of 1e-5 $/kWh (0.62277 $/kWh is 62277), usage and subscription          *)
(* quantities are in kWh, costs and savings are therefore in 1e-5 $.       *)
(* IEEE-754 rounding is not modelled: arithmetic is exact.                 *)
(*                                                                         *)
(* Timestamps.  A timestamp string is modelled by the local calendar       *)
(* fields it denotes (timezone-naive), or by valid = FALSE for a string    *)
(* that `new Date` cannot parse (an Invalid Date, whose getters are NaN).  *)
(***************************************************************************)
EXTENDS Integers, Sequences, FiniteSets, TLC

VARIABLES
    \* inputs of calculateSavingsForPeriods
    usageData, pricingData, subscriptionQuantities,
    \* locals of calculateSavingsForPeriods
    pricingMap, pricingPatternMap, results, cumulativeSavings,
    exactMatchedCount, patternMatchedCount, unmatchedCount,
    pIndex, uIndex, returned,
    \* a single call of one of the pure functions, or the handler that ran last
    callName, callArg, callRet,
    \* the useState values of App, its fetchData calls, and whether its
    \* savings effect is scheduled
    app, requests, savingsEffectPending,
    \* the useState values of CsvUpload and the calls of its onDataParsed prop
    csvUpload, onDataParsedCalls,
    \* one call of fetchPricingData: where it waits and for how long
    fetchCall

vars == <<usageData, pricingData, subscriptionQuantities,
          pricingMap, pricingPatternMap, results, cumulativeSavings,
          exactMatchedCount, patternMatchedCount, unmatchedCount,
          pIndex, uIndex, returned, callName, callArg, callRet,
          app, requests, savingsEffectPending, csvUpload, onDataParsedCalls,
          fetchCall>>

engineVars == <<usageData, pricingData, subscriptionQuantities,
                pricingMap, pricingPatternMap, results, cumulativeSavings,
                exactMatchedCount, patternMatchedCount, unmatchedCount,
                pIndex, uIndex, returned>>

callVars == <<callName, callArg, callRet>>

appVars == <<app, requests, savingsEffectPending>>

uploadVars == <<csvUpload, onDataParsedCalls>>

uiVars == <<appVars, uploadVars, fetchCall>>

----------------------------------------------------------------------------
(* Bounds *)

MaxUsage == 2
MaxPricing == 2

----------------------------------------------------------------------------
(* JavaScript numbers *)

Num(i) == [nan |-> FALSE, v |-> i]
NaN == [nan |-> TRUE, v |-> 0]

Add(a, b) == IF a.nan \/ b.nan THEN NaN ELSE Num(a.v + b.v)
Sub(a, b) == IF a.nan \/ b.nan THEN NaN ELSE Num(a.v - b.v)
Mul(a, b) == IF a.nan \/ b.nan THEN NaN ELSE Num(a.v * b.v)

\* exact on the inputs used here, which keep every quotient whole; 0 / 0
\* is NaN
Div(a, b) ==
    IF a.nan \/ b.nan \/ b.v = 0 THEN NaN ELSE Num(a.v \div b.v)

\* comparisons with NaN are false
Ge(a, b) == ~a.nan /\ ~b.nan /\ a.v >= b.v
Le(a, b) == ~a.nan /\ ~b.nan /\ a.v <= b.v
Lt(a, b) == ~a.nan /\ ~b.nan /\ a.v < b.v
StrictEq(a, b) == ~a.nan /\ ~b.nan /\ a.v = b.v

----------------------------------------------------------------------------
(* Date *)

Timestamp(y, mo, d, h, mi, s) ==
    [valid |-> TRUE, year |-> y, month |-> mo, day |-> d,
     hours |-> h, minutes |-> mi, seconds |-> s]

InvalidTimestamp ==
    [valid |-> FALSE, year |-> 0, month |-> 0, day |-> 0,
     hours |-> 0, minutes |-> 0, seconds |-> 0]

\* new Date(timestamp): the local calendar fields of a timezone-naive string
NewDate(timestamp) == timestamp

\* days from 1970-01-01 to the civil date (proleptic Gregorian calendar)
DaysFromCivil(y, m, d) ==
    LET yy == IF m <= 2 THEN y - 1 ELSE y
        era == yy \div 400
        yoe == yy - era * 400
        mp == (m + 9) % 12
        doy == (153 * mp + 2) \div 5 + d - 1
        doe == yoe * 365 + yoe \div 4 - yoe \div 100 + doy
    IN  era * 146097 + doe - 719468

getFullYear(date) == IF date.valid THEN Num(date.year) ELSE NaN
getMonth(date) == IF date.valid THEN Num(date.month - 1) ELSE NaN
getDate(date) == IF date.valid THEN Num(date.day) ELSE NaN
getHours(date) == IF date.valid THEN Num(date.hours) ELSE NaN
getMinutes(date) == IF date.valid THEN Num(date.minutes) ELSE NaN
\* 0 = Sunday ... 6 = Saturday; 1970-01-01 was a Thursday
getDay(date) ==
    IF date.valid
    THEN Num((DaysFromCivil(date.year, date.month, date.day) + 4) % 7)
    ELSE NaN

----------------------------------------------------------------------------
(* Standard Time-of-Use rates *)

TOU_RATES ==
    [summer |-> [startMonth |-> 6, endMonth |-> 9,
                 rates |-> [peak |-> 62277, partialPeak |-> 51228, offPeak |-> 31026]],
     winter |-> [startMonth |-> 10, endMonth |-> 5,
                 rates |-> [peak |-> 49566, partialPeak |-> 47896, offPeak |-> 31027]]]

\* summer taken to end before September
getSeasonShortSummer(date) ==
    LET month == Add(getMonth(date), Num(1))
    IN  IF Ge(month, Num(TOU_RATES.summer.startMonth))
           /\ Lt(month, Num(TOU_RATES.summer.endMonth))
        THEN "summer"
        ELSE "winter"

getSeason(date) ==
    LET month == Add(getMonth(date), Num(1))
    IN  IF Ge(month, Num(TOU_RATES.summer.startMonth))
           /\ Le(month, Num(TOU_RATES.summer.endMonth))
        THEN "summer"
        ELSE "winter"

\* peak taken to start after hour 16
getTOUPeriodLatePeak(hour) ==
    IF Lt(Num(16), hour) /\ Le(hour, Num(20))
    THEN "peak"
    ELSE IF StrictEq(hour, Num(15)) \/ (Ge(hour, Num(21)) /\ Le(hour, Num(23)))
         THEN "partialPeak"
         ELSE "offPeak"

getTOUPeriod(hour) ==
    IF Ge(hour, Num(16)) /\ Le(hour, Num(20))
    THEN "peak"
    ELSE IF StrictEq(hour, Num(15)) \/ (Ge(hour, Num(21)) /\ Le(hour, Num(23)))
         THEN "partialPeak"
         ELSE "offPeak"

\* the season is ignored: the summer table is used all year
getTOURateSummerOnly(timestamp) ==
    LET date == NewDate(timestamp)
        hour == getHours(date)
        period == getTOUPeriod(hour)
    IN  Num(TOU_RATES["summer"].rates[period])

getTOURate(timestamp) ==
    LET date == NewDate(timestamp)
        hour == getHours(date)
        season == getSeason(date)
        period == getTOUPeriod(hour)
    IN  Num(TOU_RATES[season].rates[period])

calculateTOUCost(timestamp, usageKWh) ==
    LET rate == getTOURate(timestamp)
    IN  Mul(usageKWh, rate)

----------------------------------------------------------------------------
(* Subscription quantities: a table hour -> (dayType -> average usage),    *)
(* a function whose domain is the set of keys present in the object.  The  *)
(* hour keys are numbers: the hour of an Invalid Date is the key NaN.      *)

DayTypes == {"weekday", "weekend"}

dayTypeOf(date) ==
    LET isWeekend == StrictEq(getDay(date), Num(0)) \/ StrictEq(getDay(date), Num(6))
    IN  IF isWeekend THEN "weekend" ELSE "weekday"

\* groupedData after the first forEach: `${hour}-${dayType}` -> usage
\* values in input order; the key string is modelled by the pair
RECURSIVE GroupUsage(_)
GroupUsage(historicalUsageData) ==
    IF historicalUsageData = <<>> THEN [k \in {} |-> <<>>]
    ELSE LET n == Len(historicalUsageData)
             groupedData == GroupUsage(SubSeq(historicalUsageData, 1, n - 1))
             dataPoint == historicalUsageData[n]
             date == NewDate(dataPoint.timestamp)
             key == <<getHours(date), dayTypeOf(date)>>
         IN  [k \in DOMAIN groupedData \cup {key} |->
                 IF k = key
                 THEN (IF key \in DOMAIN groupedData THEN groupedData[key] ELSE <<>>)
                          \o <<dataPoint.usage>>
                 ELSE groupedData[k]]

\* usageValues.reduce((sum, usage) => sum + usage, 0)
RECURSIVE ReduceSum(_)
ReduceSum(usageValues) ==
    IF usageValues = <<>> THEN Num(0)
    ELSE Add(ReduceSum(SubSeq(usageValues, 1, Len(usageValues) - 1)),
             usageValues[Len(usageValues)])

\* the sum is divided by the number of all records, not of the group's
calculateSubscriptionQuantitiesOverAll(historicalUsageData) ==
    LET groupedData == GroupUsage(historicalUsageData)
        hours == {key[1] : key \in DOMAIN groupedData}
    IN  [hour \in hours |->
            [dayType \in {key[2] : key \in {k \in DOMAIN groupedData : k[1] = hour}} |->
                Div(ReduceSum(groupedData[<<hour, dayType>>]),
                    Num(Len(historicalUsageData)))]]

calculateSubscriptionQuantities(historicalUsageData) ==
    LET groupedData == GroupUsage(historicalUsageData)
        hours == {key[1] : key \in DOMAIN groupedData}
    IN  [hour \in hours |->
            [dayType \in {key[2] : key \in {k \in DOMAIN groupedData : k[1] = hour}} |->
                Div(ReduceSum(groupedData[<<hour, dayType>>]),
                    Num(Len(groupedData[<<hour, dayType>>])))]]

\* Object.keys of an inner {dayType: average} object
ObjectKeys(obj) ==
    IF DOMAIN obj = {} THEN <<>>
    ELSE IF DOMAIN obj = {"weekday"} THEN <<"weekday">>
    ELSE IF DOMAIN obj = {"weekend"} THEN <<"weekend">>
    ELSE <<"weekday", "weekend">>

\* the fallback to the other day type is missing
getSubscriptionQuantityNoFallback(timestamp, sq) ==
    LET date == NewDate(timestamp)
        hour == getHours(date)
        dayType == dayTypeOf(date)
        hasHour == hour \in DOMAIN sq
    IN  IF hasHour /\ dayType \in DOMAIN sq[hour]
        THEN sq[hour][dayType]
        ELSE Num(0)

\* no final `return 0`: a lookup that finds nothing yields no number
getSubscriptionQuantityNoDefault(timestamp, sq) ==
    LET date == NewDate(timestamp)
        hour == getHours(date)
        dayType == dayTypeOf(date)
        hasHour == hour \in DOMAIN sq
    IN  IF hasHour /\ dayType \in DOMAIN sq[hour]
        THEN sq[hour][dayType]
        ELSE IF hasHour /\ Len(ObjectKeys(sq[hour])) > 0
             THEN sq[hour][ObjectKeys(sq[hour])[1]]
             ELSE NaN

getSubscriptionQuantity(timestamp, sq) ==
    LET date == NewDate(timestamp)
        hour == getHours(date)
        dayType == dayTypeOf(date)
        hasHour == hour \in DOMAIN sq
    IN  IF hasHour /\ dayType \in DOMAIN sq[hour]
        THEN sq[hour][dayType]
        ELSE IF hasHour /\ Len(ObjectKeys(sq[hour])) > 0
             THEN sq[hour][ObjectKeys(sq[hour])[1]]
             ELSE Num(0)

----------------------------------------------------------------------------
(* Savings for one period *)

\* only usage above the subscription is priced: no credit for under-use
calculateDynamicCostClamped(timestamp, usageKWh, dynamicRate, sq) ==
    LET subscriptionQuantity == getSubscriptionQuantity(timestamp, sq)
        usageDifference == Sub(usageKWh, subscriptionQuantity)
    IN  IF Lt(usageDifference, Num(0)) THEN Num(0)
        ELSE Mul(usageDifference, dynamicRate)

calculateDynamicCost(timestamp, usageKWh, dynamicRate, sq) ==
    LET subscriptionQuantity == getSubscriptionQuantity(timestamp, sq)
        usageDifference == Sub(usageKWh, subscriptionQuantity)
    IN  Mul(usageDifference, dynamicRate)

calculateSavings(timestamp, usageKWh, dynamicRate, sq) ==
    LET touCost == calculateTOUCost(timestamp, usageKWh)
        dynamicCost == calculateDynamicCost(timestamp, usageKWh, dynamicRate, sq)
        savings == Sub(touCost, dynamicCost)
    IN  [timestamp |-> timestamp,
         usageKWh |-> usageKWh,
         touCost |-> touCost,
         dynamicCost |-> dynamicCost,
         savings |-> savings,
         touRate |-> getTOURate(timestamp),
         dynamicRate |-> dynamicRate,
         subscriptionQuantity |-> getSubscriptionQuantity(timestamp, sq)]

----------------------------------------------------------------------------
(* Timestamp keys.  The key strings are modelled by the tuple of the       *)
(* fields they are formatted from (padStart keeps the formatting           *)
(* injective).                                                             *)

\* the seconds are kept in the key
normalizeTimestampWithSeconds(timestamp) ==
    LET date == NewDate(timestamp)
        year == getFullYear(date)
        month == Add(getMonth(date), Num(1))
        day == getDate(date)
        hour == getHours(date)
        minute == getMinutes(date)
    IN  <<year, month, day, hour, minute,
          IF date.valid THEN Num(date.seconds) ELSE NaN>>

normalizeTimestamp(timestamp) ==
    LET date == NewDate(timestamp)
        year == getFullYear(date)
        month == Add(getMonth(date), Num(1))
        day == getDate(date)
        hour == getHours(date)
        minute == getMinutes(date)
    IN  <<year, month, day, hour, minute>>

createTimePattern(timestamp) ==
    LET date == NewDate(timestamp)
        dayOfWeek == getDay(date)
        hour == getHours(date)
        minute == getMinutes(date)
    IN  <<dayOfWeek, hour, minute>>

\* an existing key keeps its first value
PutIfAbsent(obj, key, value) ==
    [k \in DOMAIN obj \cup {key} |-> IF k \in DOMAIN obj THEN obj[k] ELSE value]

\* obj[key] = value on a JavaScript object used as a map
Put(obj, key, value) ==
    [k \in DOMAIN obj \cup {key} |-> IF k = key THEN value ELSE obj[k]]

EmptyObject == [k \in {} |-> 0]

----------------------------------------------------------------------------
(* Inputs of the savings engine *)

\* Monday 2024-07-15 17:00 (summer, peak), the Monday one week later at
\* the same time, and Saturday 2024-12-07 09:00 (winter, off-peak)
EngineTimestamps ==
    {Timestamp(2024, 7, 15, 17, 0, 0), Timestamp(2024, 7, 22, 17, 0, 0),
     Timestamp(2024, 12, 7, 9, 0, 0)}

\* kWh
UsageValues == {Num(2), Num(10)}

\* 1e-5 $/kWh: 0.20 and -0.05 (prices may be negative)
PriceValues == {Num(20000), Num(-5000)}

SeqsUpTo(S, n) == UNION {[1..k -> S] : k \in 0..n}

Object1(k, v) == [x \in {k} |-> v]

\* a weekday average of 8 kWh for hour 17; and a table whose averages are
\* reached only through the other day type (hour 9 weekday, hour 17 weekend)
SubscriptionTables ==
    {Object1(Num(17), Object1("weekday", Num(8))),
     [h \in {Num(9), Num(17)} |-> IF h = Num(9) THEN Object1("weekday", Num(4))
                                             ELSE Object1("weekend", Num(12))]}

UsageSeries(Ts, Us) == SeqsUpTo([timestamp : Ts, usage : Us], MaxUsage)

PricingSeries(Ts, Ps) ==
    UNION {[timestamps : [1..k -> Ts], prices : [1..k -> Ps]] : k \in 0..MaxPricing}

----------------------------------------------------------------------------
(* The user interface before anything has happened *)

null == [type |-> "null"]

String(s) == [type |-> "string", value |-> s]

\* the useState and useRef initial values of App
AppInitial ==
    [isLoading |-> FALSE,
     error |-> null,
     chartData |-> [timestamps |-> <<>>, prices |-> <<>>],
     dateRange |-> [startDate |-> "", endDate |-> ""],
     historicalUsageData |-> <<>>,
     currentUsageData |-> <<>>,
     selectedData |-> null,
     selectedTimestamp |-> null,
     savingsData |-> <<>>,
     subscriptionQuantities |-> EmptyObject,
     initialFetchDone |-> FALSE]

\* the useState initial values of CsvUpload; reader is the text the
\* FileReader of the upload in progress will deliver, dataType the prop of
\* the later revision ("none" in the revision that has no such prop)
CsvUploadInitial ==
    [isUploading |-> FALSE, error |-> null, reader |-> null, dataType |-> "none"]

\* App has rendered once; no effect or handler has run, no request is out
AppIdle ==
    /\ app = AppInitial
    /\ requests = <<>>
    /\ savingsEffectPending = FALSE

UploadIdle ==
    /\ csvUpload = CsvUploadInitial
    /\ onDataParsedCalls = <<>>

\* fetchPricingData has not been called
FetchCallIdle ==
    fetchCall = [phase |-> "idle", elapsed |-> 0, response |-> "none",
                 body |-> null]

UiIdle ==
    /\ AppIdle
    /\ UploadIdle
    /\ FetchCallIdle

----------------------------------------------------------------------------
(* calculateSavingsForPeriods, one action per loop iteration *)

\* entry of calculateSavingsForPeriods: the accumulators and maps are fresh
EngineInit(Ts, Us, Ps) ==
    /\ usageData \in UsageSeries(Ts, Us)
    /\ pricingData \in PricingSeries(Ts, Ps)
    /\ subscriptionQuantities \in SubscriptionTables
    /\ results = <<>>
    /\ cumulativeSavings = Num(0)
    /\ pricingMap = EmptyObject
    /\ pricingPatternMap = EmptyObject
    /\ exactMatchedCount = 0
    /\ patternMatchedCount = 0
    /\ unmatchedCount = 0
    /\ pIndex = 1
    /\ uIndex = 1
    /\ returned = FALSE

NoCall ==
    /\ callName = "none"
    /\ callArg = InvalidTimestamp
    /\ callRet = <<>>

\* the engine is not running: no inputs, nothing computed
EngineIdle ==
    /\ usageData = <<>>
    /\ pricingData = [timestamps |-> <<>>, prices |-> <<>>]
    /\ subscriptionQuantities = EmptyObject
    /\ results = <<>>
    /\ cumulativeSavings = Num(0)
    /\ pricingMap = EmptyObject
    /\ pricingPatternMap = EmptyObject
    /\ exactMatchedCount = 0
    /\ patternMatchedCount = 0
    /\ unmatchedCount = 0
    /\ pIndex = 1
    /\ uIndex = 1
    /\ returned = TRUE

Init ==
    /\ EngineInit(EngineTimestamps, UsageValues, PriceValues)
    /\ NoCall
    /\ UiIdle

\* pricingData.timestamps.forEach body
PricingEntry(timestamp, index) ==
    [price |-> pricingData.prices[index], originalTimestamp |-> timestamp]

BuildPricingMaps ==
    /\ ~returned
    /\ pIndex <= Len(pricingData.timestamps)
    /\ LET timestamp == pricingData.timestamps[pIndex]
           normalizedTimestamp == normalizeTimestamp(timestamp)
           timePattern == createTimePattern(timestamp)
       IN  /\ pricingMap' = Put(pricingMap, normalizedTimestamp,
                                PricingEntry(timestamp, pIndex))
           /\ pricingPatternMap' = Put(pricingPatternMap, timePattern,
                                       PricingEntry(timestamp, pIndex))
    /\ pIndex' = pIndex + 1
    /\ UNCHANGED <<usageData, pricingData, subscriptionQuantities, results,
                   cumulativeSavings, exactMatchedCount, patternMatchedCount,
                   unmatchedCount, uIndex, returned, callVars, uiVars>>

InUsageLoop ==
    /\ ~returned
    /\ pIndex > Len(pricingData.timestamps)
    /\ uIndex <= Len(usageData)

SavingsRecord(savingsData, total) ==
    [timestamp |-> savingsData.timestamp,
     usageKWh |-> savingsData.usageKWh,
     touCost |-> savingsData.touCost,
     dynamicCost |-> savingsData.dynamicCost,
     savings |-> savingsData.savings,
     touRate |-> savingsData.touRate,
     dynamicRate |-> savingsData.dynamicRate,
     subscriptionQuantity |-> savingsData.subscriptionQuantity,
     cumulativeSavings |-> total]

\* the running total is overwritten instead of added to
EmitNoAccumulate(dataPoint, pricingInfo) ==
    LET savingsData == calculateSavings(dataPoint.timestamp, dataPoint.usage,
                                        pricingInfo.price, subscriptionQuantities)
        total == savingsData.savings
    IN  /\ cumulativeSavings' = total
        /\ results' = Append(results, SavingsRecord(savingsData, total))

\* the record is put in front of the earlier ones
EmitUnshift(dataPoint, pricingInfo) ==
    LET savingsData == calculateSavings(dataPoint.timestamp, dataPoint.usage,
                                        pricingInfo.price, subscriptionQuantities)
        total == Add(cumulativeSavings, savingsData.savings)
    IN  /\ cumulativeSavings' = total
        /\ results' = <<SavingsRecord(savingsData, total)>> \o results

\* the savings are computed at the matched pricing entry's timestamp
EmitAtPricingTimestamp(dataPoint, pricingInfo) ==
    LET savingsData == calculateSavings(pricingInfo.originalTimestamp, dataPoint.usage,
                                        pricingInfo.price, subscriptionQuantities)
        total == Add(cumulativeSavings, savingsData.savings)
    IN  /\ cumulativeSavings' = total
        /\ results' = Append(results, SavingsRecord(savingsData, total))

\* a NaN savings value is left out of the running total
EmitSkippingNaN(dataPoint, pricingInfo) ==
    LET savingsData == calculateSavings(dataPoint.timestamp, dataPoint.usage,
                                        pricingInfo.price, subscriptionQuantities)
        total == IF savingsData.savings.nan THEN cumulativeSavings
                 ELSE Add(cumulativeSavings, savingsData.savings)
    IN  /\ cumulativeSavings' = total
        /\ results' = Append(results, SavingsRecord(savingsData, total))

\* the record's savings field carries the running total
EmitCarryingTotal(dataPoint, pricingInfo) ==
    LET savingsData == calculateSavings(dataPoint.timestamp, dataPoint.usage,
                                        pricingInfo.price, subscriptionQuantities)
        total == Add(cumulativeSavings, savingsData.savings)
    IN  /\ cumulativeSavings' = total
        /\ results' = Append(results,
               SavingsRecord([savingsData EXCEPT !.savings = total], total))

\* the record pushed for a matched data point, with the running total
Emit(dataPoint, pricingInfo) ==
    LET savingsData == calculateSavings(dataPoint.timestamp, dataPoint.usage,
                                        pricingInfo.price, subscriptionQuantities)
        total == Add(cumulativeSavings, savingsData.savings)
    IN  /\ cumulativeSavings' = total
        /\ results' = Append(results, SavingsRecord(savingsData, total))

\* usageData.forEach body, exact timestamp match
UsageExactMatch ==
    /\ InUsageLoop
    /\ LET dataPoint == usageData[uIndex]
           normalizedTimestamp == normalizeTimestamp(dataPoint.timestamp)
       IN  /\ normalizedTimestamp \in DOMAIN pricingMap
           /\ Emit(dataPoint, pricingMap[normalizedTimestamp])
    /\ exactMatchedCount' = exactMatchedCount + 1
    /\ uIndex' = uIndex + 1
    /\ UNCHANGED <<usageData, pricingData, subscriptionQuantities, pricingMap,
                   pricingPatternMap, patternMatchedCount, unmatchedCount,
                   pIndex, returned, callVars, uiVars>>

\* the pattern map is consulted without looking at the exact lookup's result
UsagePatternFirst ==
    /\ InUsageLoop
    /\ LET dataPoint == usageData[uIndex]
           timePattern == createTimePattern(dataPoint.timestamp)
       IN  /\ timePattern \in DOMAIN pricingPatternMap
           /\ Emit(dataPoint, pricingPatternMap[timePattern])
    /\ patternMatchedCount' = patternMatchedCount + 1
    /\ uIndex' = uIndex + 1
    /\ UNCHANGED <<usageData, pricingData, subscriptionQuantities, pricingMap,
                   pricingPatternMap, exactMatchedCount, unmatchedCount,
                   pIndex, returned, callVars, uiVars>>

\* usageData.forEach body, no exact match but a pattern match
UsagePatternMatch ==
    /\ InUsageLoop
    /\ LET dataPoint == usageData[uIndex]
           normalizedTimestamp == normalizeTimestamp(dataPoint.timestamp)
           timePattern == createTimePattern(dataPoint.timestamp)
       IN  /\ normalizedTimestamp \notin DOMAIN pricingMap
           /\ timePattern \in DOMAIN pricingPatternMap
           /\ Emit(dataPoint, pricingPatternMap[timePattern])
    /\ patternMatchedCount' = patternMatchedCount + 1
    /\ uIndex' = uIndex + 1
    /\ UNCHANGED <<usageData, pricingData, subscriptionQuantities, pricingMap,
                   pricingPatternMap, exactMatchedCount, unmatchedCount,
                   pIndex, returned, callVars, uiVars>>

\* an unmatched data point is emitted at a price of 0
UsageUnmatchedEmitted ==
    /\ InUsageLoop
    /\ LET dataPoint == usageData[uIndex]
           normalizedTimestamp == normalizeTimestamp(dataPoint.timestamp)
           timePattern == createTimePattern(dataPoint.timestamp)
       IN  /\ normalizedTimestamp \notin DOMAIN pricingMap
           /\ timePattern \notin DOMAIN pricingPatternMap
           /\ Emit(dataPoint, [price |-> Num(0)])
    /\ unmatchedCount' = unmatchedCount + 1
    /\ uIndex' = uIndex + 1
    /\ UNCHANGED <<usageData, pricingData, subscriptionQuantities, pricingMap,
                   pricingPatternMap, exactMatchedCount, patternMatchedCount,
                   pIndex, returned, callVars, uiVars>>

\* the unmatched data point is removed from the caller's array
UsageUnmatchedSpliced ==
    /\ InUsageLoop
    /\ LET dataPoint == usageData[uIndex]
           normalizedTimestamp == normalizeTimestamp(dataPoint.timestamp)
           timePattern == createTimePattern(dataPoint.timestamp)
       IN  /\ normalizedTimestamp \notin DOMAIN pricingMap
           /\ timePattern \notin DOMAIN pricingPatternMap
    /\ unmatchedCount' = unmatchedCount + 1
    /\ usageData' = SubSeq(usageData, 1, uIndex - 1)
                        \o SubSeq(usageData, uIndex + 1, Len(usageData))
    /\ UNCHANGED <<pricingData, subscriptionQuantities, pricingMap,
                   pricingPatternMap, results, cumulativeSavings,
                   exactMatchedCount, patternMatchedCount,
                   pIndex, uIndex, returned, callVars, uiVars>>

\* usageData.forEach body, neither lookup succeeds: only a log line
UsageUnmatched ==
    /\ InUsageLoop
    /\ LET dataPoint == usageData[uIndex]
           normalizedTimestamp == normalizeTimestamp(dataPoint.timestamp)
           timePattern == createTimePattern(dataPoint.timestamp)
       IN  /\ normalizedTimestamp \notin DOMAIN pricingMap
           /\ timePattern \notin DOMAIN pricingPatternMap
    /\ unmatchedCount' = unmatchedCount + 1
    /\ uIndex' = uIndex + 1
    /\ UNCHANGED <<usageData, pricingData, subscriptionQuantities, pricingMap,
                   pricingPatternMap, results, cumulativeSavings,
                   exactMatchedCount, patternMatchedCount,
                   pIndex, returned, callVars, uiVars>>

\* return results
Return ==
    /\ ~returned
    /\ pIndex > Len(pricingData.timestamps)
    /\ uIndex > Len(usageData)
    /\ returned' = TRUE
    /\ UNCHANGED <<usageData, pricingData, subscriptionQuantities, pricingMap,
                   pricingPatternMap, results, cumulativeSavings,
                   exactMatchedCount, patternMatchedCount, unmatchedCount,
                   pIndex, uIndex, callVars, uiVars>>

Next ==
    \/ BuildPricingMaps
    \/ UsageExactMatch
    \/ UsagePatternMatch
    \/ UsageUnmatched
    \/ Return

Spec == Init /\ [][Next]_vars

----------------------------------------------------------------------------
(* The engine called a second time with the arguments of a call that has  *)
(* returned; callRet keeps what the first call returned.                   *)

RepeatTimestamps ==
    {Timestamp(2024, 7, 15, 17, 0, 0), Timestamp(2024, 7, 22, 17, 0, 0)}

RepeatInit ==
    /\ EngineInit(RepeatTimestamps, UsageValues, PriceValues)
    /\ NoCall
    /\ UiIdle

\* the running total outlives the call
EnterCallKeepingTotal ==
    /\ results' = <<>>
    /\ cumulativeSavings' = cumulativeSavings
    /\ pricingMap' = EmptyObject
    /\ pricingPatternMap' = EmptyObject
    /\ exactMatchedCount' = 0
    /\ patternMatchedCount' = 0
    /\ unmatchedCount' = 0
    /\ pIndex' = 1
    /\ uIndex' = 1
    /\ returned' = FALSE

\* the declarations at the top of calculateSavingsForPeriods
EnterCall ==
    /\ results' = <<>>
    /\ cumulativeSavings' = Num(0)
    /\ pricingMap' = EmptyObject
    /\ pricingPatternMap' = EmptyObject
    /\ exactMatchedCount' = 0
    /\ patternMatchedCount' = 0
    /\ unmatchedCount' = 0
    /\ pIndex' = 1
    /\ uIndex' = 1
    /\ returned' = FALSE

CallAgain ==
    /\ returned
    /\ callName = "none"
    /\ callName' = "calculateSavingsForPeriods"
    /\ callRet' = <<results>>
    /\ EnterCall
    /\ UNCHANGED <<usageData, pricingData, subscriptionQuantities, callArg, uiVars>>

RepeatNext ==
    \/ BuildPricingMaps
    \/ UsageExactMatch
    \/ UsagePatternMatch
    \/ UsageUnmatched
    \/ Return
    \/ CallAgain

SpecRepeat == RepeatInit /\ [][RepeatNext]_vars

----------------------------------------------------------------------------
(* The same engine on edge-case inputs: timestamps of one weekday and hour *)
(* in different seasons and with different seconds, NaN usage and price.   *)

\* Monday 2024-07-15 17:00:00, the same minute at second 30, and Monday
\* 2024-12-09 17:00:00 (winter)
EdgeTimestamps ==
    {Timestamp(2024, 7, 15, 17, 0, 0), Timestamp(2024, 7, 15, 17, 0, 30),
     Timestamp(2024, 12, 9, 17, 0, 0)}

\* parseFloat of a non-numeric CSV cell is NaN
EdgeUsageValues == {Num(10), NaN}

\* parseFloat of a non-numeric intervalPrice is NaN
EdgePriceValues == {Num(20000), NaN}

EdgeInit ==
    /\ EngineInit(EdgeTimestamps, EdgeUsageValues, EdgePriceValues)
    /\ NoCall
    /\ UiIdle

SpecEdge == EdgeInit /\ [][Next]_vars

----------------------------------------------------------------------------
(* The exact lookup on its own: one pricing timestamp is put in the map    *)
(* and one usage timestamp is looked up.                                   *)

KeyTimestamps ==
    {Timestamp(y, m, d, h, mi, sec) :
        y \in {2024, 2025}, m \in {7, 8}, d \in {15, 16},
        h \in {17, 18}, mi \in {0, 30}, sec \in {0, 30}}

KeysInit ==
    /\ callName = "none"
    /\ callArg \in [pricing : KeyTimestamps \cup {InvalidTimestamp},
                     usage : KeyTimestamps \cup {InvalidTimestamp}]
    /\ callRet = <<>>
    /\ EngineIdle
    /\ UiIdle

\* pricingMap[normalizeTimestamp(pricing)] = ...; then
\* pricingMap[normalizeTimestamp(usage)] !== undefined
CallExactLookup ==
    /\ callName = "none"
    /\ callName' = "exactLookup"
    /\ LET map == Put(EmptyObject, normalizeTimestamp(callArg.pricing),
                      [price |-> Num(0), originalTimestamp |-> callArg.pricing])
       IN  callRet' = <<normalizeTimestamp(callArg.usage) \in DOMAIN map>>
    /\ UNCHANGED <<callArg, engineVars, uiVars>>

\* the same for the pattern map
CallPatternLookup ==
    /\ callName = "none"
    /\ callName' = "patternLookup"
    /\ LET map == Put(EmptyObject, createTimePattern(callArg.pricing),
                      [price |-> Num(0), originalTimestamp |-> callArg.pricing])
       IN  callRet' = <<createTimePattern(callArg.usage) \in DOMAIN map>>
    /\ UNCHANGED <<callArg, engineVars, uiVars>>

KeysNext ==
    \/ CallExactLookup
    \/ CallPatternLookup

SpecKeys == KeysInit /\ [][KeysNext]_vars

----------------------------------------------------------------------------
(* The subscription baseline: the table is built from a historical upload  *)
(* and then looked up for one timestamp.  Usage is in units of 1/12 kWh    *)
(* here (3 kWh is 36, 5 kWh is 60), which keeps every mean of up to four   *)
(* records a whole number.                                                 *)

MaxHistory == 3

\* Monday and Wednesday 14:00, Saturday 09:00, Sunday 14:00, and a row
\* whose date does not parse
HistoryTimestamps ==
    {Timestamp(2024, 7, 15, 14, 0, 0), Timestamp(2024, 7, 17, 14, 0, 0),
     Timestamp(2024, 12, 7, 9, 0, 0), Timestamp(2024, 12, 8, 14, 0, 0),
     InvalidTimestamp}

HistoryUsageValues == {Num(36), Num(60)}

\* Tuesday 14:00, Monday 09:00, Saturday 03:00, Saturday 14:00, unparsable
LookupTimestamps ==
    {Timestamp(2024, 7, 16, 14, 0, 0), Timestamp(2024, 7, 15, 9, 0, 0),
     Timestamp(2024, 12, 7, 3, 0, 0), Timestamp(2024, 12, 7, 14, 0, 0),
     InvalidTimestamp}

BaselineInit ==
    /\ callName = "none"
    /\ callArg \in [history : SeqsUpTo([timestamp : HistoryTimestamps,
                                         usage : HistoryUsageValues], MaxHistory),
                     timestamp : LookupTimestamps]
    /\ callRet = <<>>
    /\ EngineIdle
    /\ UiIdle

CallCalculateSubscriptionQuantities ==
    /\ callName = "none"
    /\ callName' = "calculateSubscriptionQuantities"
    /\ callRet' = <<calculateSubscriptionQuantities(callArg.history)>>
    /\ UNCHANGED <<callArg, engineVars, uiVars>>

\* a lookup in the table built before
CallGetSubscriptionQuantity ==
    /\ callName = "calculateSubscriptionQuantities"
    /\ callName' = "getSubscriptionQuantity"
    /\ callRet' = <<callRet[1], getSubscriptionQuantity(callArg.timestamp, callRet[1])>>
    /\ UNCHANGED <<callArg, engineVars, uiVars>>

BaselineNext ==
    \/ CallCalculateSubscriptionQuantities
    \/ CallGetSubscriptionQuantity

SpecBaseline == BaselineInit /\ [][BaselineNext]_vars

----------------------------------------------------------------------------
(* fetchPricingData after the response body has been read: the arrays are  *)
(* built from data.data.  A day's priceDetails is an array of intervals or *)
(* something that is no array (for one, a missing property).  A price text *)
(* is modelled by the number it starts with, if any (in 1e-5 $/kWh), and   *)
(* by whether other characters follow.                                     *)

MaxDays == 2
MaxIntervals == 2

PriceText(lead, junk) == [lead |-> lead, junk |-> junk]

\* parseFloat: the leading number, NaN when the text starts with none
parseFloat(text) == IF text.lead = <<>> THEN NaN ELSE Num(text.lead[1])

\* "0.20", "-0.05" and "n/a" at three hours of 2024-07-15
FetchIntervals ==
    {[startIntervalTimeStamp |-> Timestamp(2024, 7, 15, 17, 0, 0),
      intervalPrice |-> PriceText(<<20000>>, FALSE)],
     [startIntervalTimeStamp |-> Timestamp(2024, 7, 15, 18, 0, 0),
      intervalPrice |-> PriceText(<<-5000>>, FALSE)],
     [startIntervalTimeStamp |-> Timestamp(2024, 7, 15, 19, 0, 0),
      intervalPrice |-> PriceText(<<>>, TRUE)]}

FetchDays ==
    {[priceDetails |-> [isArray |-> FALSE, items |-> <<>>]]}
    \cup {[priceDetails |-> [isArray |-> TRUE, items |-> items]] :
              items \in SeqsUpTo(FetchIntervals, MaxIntervals)}

\* a price that does not parse is not pushed
PushIntervalSkippingNaN(arrays, interval) ==
    LET price == parseFloat(interval.intervalPrice)
    IN  [timestamps |-> Append(arrays.timestamps, interval.startIntervalTimeStamp),
         prices |-> IF price.nan THEN arrays.prices ELSE Append(arrays.prices, price)]

\* the body of priceDetails.forEach: one push to each array
PushInterval(arrays, interval) ==
    [timestamps |-> Append(arrays.timestamps, interval.startIntervalTimeStamp),
     prices |-> Append(arrays.prices, parseFloat(interval.intervalPrice))]

\* priceDetails.forEach
RECURSIVE PushIntervals(_, _)
PushIntervals(arrays, priceDetails) ==
    IF priceDetails = <<>> THEN arrays
    ELSE PushIntervals(PushInterval(arrays, Head(priceDetails)), Tail(priceDetails))

\* pricingData.forEach
RECURSIVE ProcessDays(_, _)
ProcessDays(arrays, days) ==
    IF days = <<>> THEN arrays
    ELSE LET priceDetails == Head(days).priceDetails
         IN  ProcessDays(
                 IF priceDetails.isArray /\ Len(priceDetails.items) > 0
                 THEN PushIntervals(arrays, priceDetails.items)
                 ELSE arrays,
                 Tail(days))

FetchInit ==
    /\ callName = "none"
    /\ callArg \in [data : SeqsUpTo(FetchDays, MaxDays)]
    /\ callRet = <<>>
    /\ EngineIdle
    /\ UiIdle

\* from `const pricingData = data.data` to `return { timestamps, prices }`
FetchResolve ==
    /\ callName = "none"
    /\ callName' = "fetchPricingData"
    /\ callRet' = <<ProcessDays([timestamps |-> <<>>, prices |-> <<>>], callArg.data)>>
    /\ UNCHANGED <<callArg, engineVars, uiVars>>

FetchNext == FetchResolve

SpecFetch == FetchInit /\ [][FetchNext]_vars

----------------------------------------------------------------------------
(* Single calls of the pure rate functions on one timestamp *)

LastDayOfMonth(m) == IF m = 2 THEN 28 ELSE IF m \in {4, 6, 9, 11} THEN 30 ELSE 31

RateTimestamps ==
    {Timestamp(y, m, d, h, mi, 0) :
        y \in {2024, 2025}, m \in 1..12, d \in {1, 15, 28, 29, 30, 31},
        h \in 0..23, mi \in {0, 59}}

ValidRateTimestamps == {t \in RateTimestamps : t.day <= LastDayOfMonth(t.month)}

RateInit ==
    /\ callName = "none"
    /\ callArg \in ValidRateTimestamps \cup {InvalidTimestamp}
    /\ callRet = <<>>
    /\ EngineIdle
    /\ UiIdle

CallGetSeason ==
    /\ callName = "none"
    /\ callName' = "getSeason"
    /\ callRet' = <<getSeason(NewDate(callArg))>>
    /\ UNCHANGED <<callArg, engineVars, uiVars>>

CallGetTOUPeriod ==
    /\ callName = "none"
    /\ callName' = "getTOUPeriod"
    /\ callRet' = <<getTOUPeriod(getHours(NewDate(callArg)))>>
    /\ UNCHANGED <<callArg, engineVars, uiVars>>

CallGetTOURate ==
    /\ callName = "none"
    /\ callName' = "getTOURate"
    /\ callRet' = <<getTOURate(callArg)>>
    /\ UNCHANGED <<callArg, engineVars, uiVars>>

RateNext ==
    \/ CallGetSeason
    \/ CallGetTOUPeriod
    \/ CallGetTOURate

SpecRate == RateInit /\ [][RateNext]_vars

----------------------------------------------------------------------------
(* Claims about the rate schedule (checked under SpecRate) *)

SixRates == {62277, 51228, 31026, 49566, 47896, 31027}

\* the rate table of the tariff written out by calendar month and hour
TariffRate(month, hour) ==
    IF month \in {6, 7, 8, 9}
    THEN IF hour \in 16..20 THEN 62277
         ELSE IF hour \in {15, 21, 22, 23} THEN 51228
         ELSE 31026
    ELSE IF hour \in 16..20 THEN 49566
         ELSE IF hour \in {15, 21, 22, 23} THEN 47896
         ELSE 31027

\* C3: getTOURate(t) is always one of the six table constants, the one
\* selected by the season of t's month and the period of t's hour, whatever
\* the year, the day and the minute; a timestamp that does not parse also
\* gets a table rate, not an error.
C3_RateIsTableConstant ==
    callName = "getTOURate" =>
        /\ ~callRet[1].nan
        /\ callRet[1].v \in SixRates
        /\ callArg.valid => callRet[1].v = TariffRate(callArg.month, callArg.hours)

\* a summer partial-peak rate in 2025, on the 30th at 21:59
C3_Witness ==
    /\ callName = "getTOURate"
    /\ callArg = Timestamp(2025, 9, 30, 21, 59, 0)
    /\ callRet = <<Num(51228)>>

\* C4: getSeason is summer exactly for the months June..September and winter
\* for every other month, in every year.
C4_SeasonByMonth ==
    (callName = "getSeason" /\ callArg.valid) =>
        /\ callRet[1] \in {"summer", "winter"}
        /\ callRet[1] = "summer" <=> callArg.month \in {6, 7, 8, 9}
        /\ (callArg.month = 5 /\ callArg.day = 31 /\ callArg.hours = 23)
               => callRet[1] = "winter"
        /\ (callArg.month = 6 /\ callArg.day = 1 /\ callArg.hours = 0)
               => callRet[1] = "summer"
        /\ (callArg.month = 9 /\ callArg.day = 30 /\ callArg.hours = 23)
               => callRet[1] = "summer"
        /\ (callArg.month = 10 /\ callArg.day = 1 /\ callArg.hours = 0)
               => callRet[1] = "winter"

\* September 30 23:00 is still summer
C4_Witness ==
    /\ callName = "getSeason"
    /\ callArg = Timestamp(2024, 9, 30, 23, 0, 0)
    /\ callRet = <<"summer">>

\* C5: getTOUPeriod maps hours 16..20 to peak, 15 and 21..23 to partial-peak
\* and 0..14 to off-peak: every hour of the day is in exactly one class.
C5_PeriodPartition ==
    (callName = "getTOUPeriod" /\ callArg.valid) =>
        /\ callArg.hours \in 16..20 => callRet[1] = "peak"
        /\ callArg.hours \in {15, 21, 22, 23} => callRet[1] = "partialPeak"
        /\ callArg.hours \in 0..14 => callRet[1] = "offPeak"
        /\ callArg.hours \in (0..14) \cup {15} \cup (16..20) \cup (21..23)

\* hour 16 is the first peak hour
C5_Witness ==
    /\ callName = "getTOUPeriod"
    /\ callArg.valid
    /\ callArg.hours = 16
    /\ callRet = <<"peak">>

----------------------------------------------------------------------------
(* Claims about calculateSavingsForPeriods (checked under Spec).  The      *)
(* matching relations below are stated on the calendar fields of the raw   *)
(* inputs, not on the engine's maps.                                       *)

Mon15 == Timestamp(2024, 7, 15, 17, 0, 0)
Mon22 == Timestamp(2024, 7, 22, 17, 0, 0)

SameMinute(t1, t2) ==
    /\ t1.year = t2.year /\ t1.month = t2.month /\ t1.day = t2.day
    /\ t1.hours = t2.hours /\ t1.minutes = t2.minutes

SamePattern(t1, t2) ==
    /\ (DaysFromCivil(t1.year, t1.month, t1.day)
            - DaysFromCivil(t2.year, t2.month, t2.day)) % 7 = 0
    /\ t1.hours = t2.hours /\ t1.minutes = t2.minutes

PricingIndices == 1..Len(pricingData.timestamps)
ExactIndices(t) == {j \in PricingIndices : SameMinute(pricingData.timestamps[j], t)}
PatternIndices(t) == {j \in PricingIndices : SamePattern(pricingData.timestamps[j], t)}
Matched(t) == ExactIndices(t) # {} \/ PatternIndices(t) # {}
MatchedPoint(d) == Matched(d.timestamp)
Last(S) == CHOOSE j \in S : \A k \in S : k <= j

MapsBuilt == pIndex > Len(pricingData.timestamps)
Processed == SubSeq(usageData, 1, uIndex - 1)

RECURSIVE SumSavings(_)
SumSavings(rs) ==
    IF rs = <<>> THEN Num(0)
    ELSE Add(SumSavings(SubSeq(rs, 1, Len(rs) - 1)), rs[Len(rs)].savings)

\* C1: in every emitted record touCost = usageKWh * touRate, dynamicCost =
\* (usageKWh - subscriptionQuantity) * dynamicRate and savings = touCost -
\* dynamicCost, on the record's own fields; 10 kWh on a summer peak hour with
\* subscription 8 and dynamic rate 0.20 gives 6.2277, 0.40 and 5.8277.
C1_RecordArithmetic ==
    \A i \in 1..Len(results) :
        LET r == results[i] IN
        /\ r.touCost = Mul(r.usageKWh, r.touRate)
        /\ r.dynamicCost = Mul(Sub(r.usageKWh, r.subscriptionQuantity), r.dynamicRate)
        /\ r.savings = Sub(r.touCost, r.dynamicCost)
        /\ (r.timestamp = Mon15 /\ r.usageKWh = Num(10)
              /\ r.subscriptionQuantity = Num(8) /\ r.dynamicRate = Num(20000))
            => (r.touCost = Num(622770) /\ r.dynamicCost = Num(40000)
                  /\ r.savings = Num(582770))

C1_Witness ==
    /\ returned
    /\ \E i \in 1..Len(results) :
          /\ results[i].timestamp = Mon15 /\ results[i].usageKWh = Num(10)
          /\ results[i].subscriptionQuantity = Num(8)
          /\ results[i].dynamicRate = Num(20000)
          /\ results[i].savings = Num(582770)

\* C2: each emitted record's cumulativeSavings is the previous emitted
\* record's cumulativeSavings (0 before the first) plus its own savings, and
\* the last one is the sum of the savings of all emitted records.
C2_CumulativeIsRunningSum ==
    /\ \A i \in 1..Len(results) :
          results[i].cumulativeSavings =
              Add(IF i = 1 THEN Num(0) ELSE results[i - 1].cumulativeSavings,
                  results[i].savings)
    /\ results # <<>> =>
          results[Len(results)].cumulativeSavings = SumSavings(results)

\* two emitted records with different non-zero savings
C2_Witness ==
    /\ returned
    /\ Len(results) = 2
    /\ results[1].savings # Num(0)
    /\ results[2].savings # Num(0)
    /\ results[1].savings # results[2].savings
    /\ results[2].cumulativeSavings = Add(results[1].savings, results[2].savings)

C7_ExactBeforePattern ==
    MapsBuilt =>
        /\ \A i \in 1..Len(results) :
              ExactIndices(results[i].timestamp) # {} =>
                  \E j \in ExactIndices(results[i].timestamp) :
                      results[i].dynamicRate = pricingData.prices[j]
        /\ exactMatchedCount =
              Cardinality({i \in 1..(uIndex - 1) :
                              ExactIndices(usageData[i].timestamp) # {}})
        /\ patternMatchedCount =
              Cardinality({i \in 1..(uIndex - 1) :
                              /\ ExactIndices(usageData[i].timestamp) = {}
                              /\ PatternIndices(usageData[i].timestamp) # {}})

\* exact entry at 0.20 first, then the next Monday's entry at -0.05, which
\* is the one the pattern map holds for Monday 17:00
C7_Witness ==
    /\ returned
    /\ pricingData = [timestamps |-> <<Mon15, Mon22>>,
                      prices |-> <<Num(20000), Num(-5000)>>]
    /\ pricingPatternMap[createTimePattern(Mon15)].price = Num(-5000)
    /\ Len(results) >= 1
    /\ results[1].timestamp = Mon15
    /\ results[1].dynamicRate = Num(20000)

\* C8: exactly the usage records with an exact or a pattern price are
\* emitted, one record each; the others only count as unmatched and leave
\* the running total alone; the output is never longer than the input.
C8_OneRecordPerMatch ==
    MapsBuilt =>
        /\ Len(results) =
              Cardinality({i \in 1..(uIndex - 1) : MatchedPoint(usageData[i])})
        /\ unmatchedCount =
              Cardinality({i \in 1..(uIndex - 1) : ~MatchedPoint(usageData[i])})
        /\ Len(results) <= Len(usageData)
        /\ cumulativeSavings = SumSavings(results)

\* a dropped first record followed by an emitted one
C8_Witness ==
    /\ returned
    /\ Len(usageData) = 2
    /\ ~MatchedPoint(usageData[1])
    /\ MatchedPoint(usageData[2])
    /\ Len(results) = 1
    /\ unmatchedCount = 1
    /\ results[1].timestamp = usageData[2].timestamp
    /\ cumulativeSavings = results[1].savings

\* C9: the emitted records are the matched usage records in input order,
\* whether or not the input is chronological.
C9_InputOrderKept ==
    MapsBuilt =>
        [i \in 1..Len(results) |->
            [timestamp |-> results[i].timestamp, usage |-> results[i].usageKWh]]
        = SelectSeq(Processed, MatchedPoint)

\* the later Monday is given first and stays first
C9_Witness ==
    /\ returned
    /\ Len(usageData) = 2
    /\ usageData[1].timestamp = Mon22
    /\ usageData[2].timestamp = Mon15
    /\ usageData[1].usage # usageData[2].usage
    /\ Len(results) = 2
    /\ results[1].timestamp = Mon22
    /\ results[2].timestamp = Mon15
    /\ results[2].cumulativeSavings = Add(results[1].savings, results[2].savings)

\* C10: among pricing entries with the same exact key, or the same pattern
\* key, the price of the last one in the series is used.
C10_LastWriteWins ==
    MapsBuilt =>
        \A i \in 1..Len(results) :
            LET t == results[i].timestamp IN
            IF ExactIndices(t) # {}
            THEN results[i].dynamicRate = pricingData.prices[Last(ExactIndices(t))]
            ELSE results[i].dynamicRate = pricingData.prices[Last(PatternIndices(t))]

\* two entries for Monday 15th 17:00 with different prices: the usage of
\* that minute (exact) and of the next Monday (pattern) both get the second
C10_Witness ==
    /\ returned
    /\ pricingData = [timestamps |-> <<Mon15, Mon15>>,
                      prices |-> <<Num(20000), Num(-5000)>>]
    /\ Len(results) = 2
    /\ results[1].timestamp = Mon15
    /\ results[2].timestamp = Mon22
    /\ results[1].dynamicRate = Num(-5000)
    /\ results[2].dynamicRate = Num(-5000)

----------------------------------------------------------------------------
(* Claims checked on the edge-case inputs (SpecEdge) *)

MonJul == Timestamp(2024, 7, 15, 17, 0, 0)
MonJul30s == Timestamp(2024, 7, 15, 17, 0, 30)
MonDec == Timestamp(2024, 12, 9, 17, 0, 0)

\* Saturday or Sunday, from the day count (1970-01-01 was a Thursday)
IsWeekendDay(t) == (DaysFromCivil(t.year, t.month, t.day) + 4) % 7 \in {0, 6}

OwnDayType(t) == IF IsWeekendDay(t) THEN "weekend" ELSE "weekday"
OtherDayType(t) == IF IsWeekendDay(t) THEN "weekday" ELSE "weekend"

\* the table's value for the timestamp's hour: own day type, else the other
\* day type, else 0
TableQuantity(t, sq) ==
    IF Num(t.hours) \notin DOMAIN sq THEN Num(0)
    ELSE IF OwnDayType(t) \in DOMAIN sq[Num(t.hours)]
         THEN sq[Num(t.hours)][OwnDayType(t)]
         ELSE IF OtherDayType(t) \in DOMAIN sq[Num(t.hours)]
              THEN sq[Num(t.hours)][OtherDayType(t)]
              ELSE Num(0)

EmittedPoints ==
    [i \in 1..Len(results) |->
        [timestamp |-> results[i].timestamp, usage |-> results[i].usageKWh]]

\* C11: a usage record without an exact pricing entry but with an entry on
\* the same weekday, hour and minute is emitted with that entry's price,
\* while timestamp, touRate and subscriptionQuantity are those of the usage
\* record's own timestamp.
C11_PatternFallback ==
    MapsBuilt =>
        /\ EmittedPoints = SelectSeq(Processed, MatchedPoint)
        /\ \A i \in 1..Len(results) :
              LET r == results[i]
                  t == r.timestamp
              IN  (ExactIndices(t) = {} /\ PatternIndices(t) # {}) =>
                      /\ \E j \in PatternIndices(t) :
                            r.dynamicRate = pricingData.prices[j]
                      /\ r.touRate = Num(TariffRate(t.month, t.hours))
                      /\ r.subscriptionQuantity = TableQuantity(t, subscriptionQuantities)

\* a July usage hour priced by the December entry keeps the summer peak rate
C11_Witness ==
    /\ returned
    /\ pricingData = [timestamps |-> <<MonDec>>, prices |-> <<Num(20000)>>]
    /\ Len(results) = 1
    /\ results[1].timestamp = MonJul
    /\ results[1].dynamicRate = Num(20000)
    /\ results[1].touRate = Num(62277)
    /\ results[1].subscriptionQuantity = Num(8)
    /\ patternMatchedCount = 1

\* the record of a data point as fixed by the data point, the pricing series
\* and the table alone
OwnPrice(t) ==
    IF ExactIndices(t) # {} THEN pricingData.prices[Last(ExactIndices(t))]
    ELSE pricingData.prices[Last(PatternIndices(t))]

OwnFields(d) ==
    LET t == d.timestamp
        rate == Num(TariffRate(t.month, t.hours))
        quantity == TableQuantity(t, subscriptionQuantities)
        tou == Mul(d.usage, rate)
        dyn == Mul(Sub(d.usage, quantity), OwnPrice(t))
    IN  [timestamp |-> t, usageKWh |-> d.usage, touRate |-> rate,
         dynamicRate |-> OwnPrice(t), subscriptionQuantity |-> quantity,
         touCost |-> tou, dynamicCost |-> dyn, savings |-> Sub(tou, dyn)]

WithoutCumulative(r) ==
    [timestamp |-> r.timestamp, usageKWh |-> r.usageKWh, touRate |-> r.touRate,
     dynamicRate |-> r.dynamicRate, subscriptionQuantity |-> r.subscriptionQuantity,
     touCost |-> r.touCost, dynamicCost |-> r.dynamicCost, savings |-> r.savings]

\* C17: for a fixed pricing series and table, all fields of an emitted
\* record except cumulativeSavings are fixed by its own usage record,
\* whatever the other usage records and their order.
C17_FieldsDependOnOwnRecord ==
    MapsBuilt =>
        LET matched == SelectSeq(Processed, MatchedPoint)
        IN  /\ Len(results) = Len(matched)
            /\ \A i \in 1..Len(results) :
                  WithoutCumulative(results[i]) = OwnFields(matched[i])

\* the same data point twice: equal records, different running totals
C17_Witness ==
    /\ returned
    /\ Len(usageData) = 2
    /\ usageData[1] = usageData[2]
    /\ Len(results) = 2
    /\ WithoutCumulative(results[1]) = WithoutCumulative(results[2])
    /\ ~results[1].savings.nan
    /\ results[1].savings # Num(0)
    /\ results[1].cumulativeSavings # results[2].cumulativeSavings

\* C19: a matched record with a NaN usage or a NaN price is still emitted,
\* its savings is NaN, and the cumulativeSavings of that record and of every
\* later record is NaN.
C19_NaNPropagates ==
    MapsBuilt =>
        /\ Len(results) =
              Cardinality({i \in 1..(uIndex - 1) : MatchedPoint(usageData[i])})
        /\ \A i \in 1..Len(results) :
              (results[i].usageKWh.nan \/ results[i].dynamicRate.nan) =>
                  /\ results[i].savings.nan
                  /\ \A j \in i..Len(results) : results[j].cumulativeSavings.nan
                  /\ cumulativeSavings.nan

\* a NaN usage first, then a record with finite savings whose running total
\* is NaN all the same
C19_Witness ==
    /\ returned
    /\ Len(results) = 2
    /\ results[1].usageKWh.nan
    /\ ~results[1].dynamicRate.nan
    /\ results[1].savings.nan
    /\ ~results[2].savings.nan
    /\ results[2].cumulativeSavings.nan

----------------------------------------------------------------------------
(* Claims about the lookup keys (checked under SpecKeys) *)

\* C12: the exact lookup finds the pricing entry exactly when the two
\* timestamps agree on local year, month, day, hour and minute; the seconds
\* play no part.
C12_ExactKeyIsFiveFields ==
    (callName = "exactLookup" /\ callArg.pricing.valid /\ callArg.usage.valid) =>
        (callRet[1] <=>
            /\ callArg.pricing.year = callArg.usage.year
            /\ callArg.pricing.month = callArg.usage.month
            /\ callArg.pricing.day = callArg.usage.day
            /\ callArg.pricing.hours = callArg.usage.hours
            /\ callArg.pricing.minutes = callArg.usage.minutes)

\* same minute, seconds 0 and 30: found
C12_Witness ==
    /\ callName = "exactLookup"
    /\ callArg.pricing = Timestamp(2024, 7, 15, 17, 0, 0)
    /\ callArg.usage = Timestamp(2024, 7, 15, 17, 0, 30)
    /\ callRet = <<TRUE>>

----------------------------------------------------------------------------
(* Claims about the subscription baseline (checked under SpecBaseline) *)

\* the historical records of one hour and day type
HistoryGroup(history, h, dt) ==
    {i \in 1..Len(history) :
        /\ history[i].timestamp.valid
        /\ history[i].timestamp.hours = h
        /\ OwnDayType(history[i].timestamp) = dt}

RECURSIVE UsageTotal(_, _)
UsageTotal(history, group) ==
    IF group = {} THEN Num(0)
    ELSE LET i == CHOOSE x \in group : TRUE
         IN  Add(history[i].usage, UsageTotal(history, group \ {i}))

HasEntry(table, h, dt) == Num(h) \in DOMAIN table /\ dt \in DOMAIN table[Num(h)]

\* C13: the table has an entry for (hour, dayType) exactly when some
\* historical record falls in that hour and day type (Saturday and Sunday are
\* weekend), and the entry is the mean of the usage of exactly those records;
\* 3 kWh and 5 kWh on weekdays at 14:00 average to 4 kWh.
C13_TableIsGroupMeans ==
    callName = "calculateSubscriptionQuantities" =>
        LET table == callRet[1]
            history == callArg.history
        IN  /\ \A h \in 0..23 : \A dt \in DayTypes :
                  LET group == HistoryGroup(history, h, dt)
                  IN  /\ HasEntry(table, h, dt) <=> group # {}
                      /\ group # {} =>
                            Mul(table[Num(h)][dt], Num(Cardinality(group)))
                                = UsageTotal(history, group)
            /\ \A k \in DOMAIN table :
                  /\ DOMAIN table[k] # {}
                  /\ DOMAIN table[k] \subseteq DayTypes
                  /\ k.nan \/ k.v \in 0..23
            /\ (/\ Len(history) = 2
                /\ history[1] = [timestamp |-> Timestamp(2024, 7, 15, 14, 0, 0),
                                 usage |-> Num(36)]
                /\ history[2] = [timestamp |-> Timestamp(2024, 7, 17, 14, 0, 0),
                                 usage |-> Num(60)])
               => table = Object1(Num(14), Object1("weekday", Num(48)))

\* Monday 3 kWh, Wednesday 5 kWh and a Sunday record, all at 14:00: the
\* weekday mean is 4 kWh and the Sunday record has its own weekend entry
C13_Witness ==
    /\ callName = "calculateSubscriptionQuantities"
    /\ callArg.history =
          <<[timestamp |-> Timestamp(2024, 7, 15, 14, 0, 0), usage |-> Num(36)],
            [timestamp |-> Timestamp(2024, 12, 8, 14, 0, 0), usage |-> Num(60)],
            [timestamp |-> Timestamp(2024, 7, 17, 14, 0, 0), usage |-> Num(60)]>>
    /\ callRet[1][Num(14)]["weekday"] = Num(48)
    /\ callRet[1][Num(14)]["weekend"] = Num(60)
    /\ DOMAIN callRet[1] = {Num(14)}

\* C14: a lookup returns the entry of (hour, day type) when present, else
\* the entry of the same hour under the other day type, else 0.
C14_LookupWithFallback ==
    (callName = "getSubscriptionQuantity" /\ callArg.timestamp.valid) =>
        LET table == callRet[1]
            t == callArg.timestamp
        IN  /\ HasEntry(table, t.hours, OwnDayType(t))
                  => callRet[2] = table[Num(t.hours)][OwnDayType(t)]
            /\ (~HasEntry(table, t.hours, OwnDayType(t))
                  /\ HasEntry(table, t.hours, OtherDayType(t)))
                  => callRet[2] = table[Num(t.hours)][OtherDayType(t)]
            /\ (~HasEntry(table, t.hours, OwnDayType(t))
                  /\ ~HasEntry(table, t.hours, OtherDayType(t)))
                  => callRet[2] = Num(0)

\* only a Saturday record at 09:00: the Monday 09:00 lookup gets its value
C14_Witness ==
    /\ callName = "getSubscriptionQuantity"
    /\ callArg.history =
          <<[timestamp |-> Timestamp(2024, 12, 7, 9, 0, 0), usage |-> Num(36)]>>
    /\ callArg.timestamp = Timestamp(2024, 7, 15, 9, 0, 0)
    /\ DOMAIN callRet[1][Num(9)] = {"weekend"}
    /\ callRet[2] = Num(36)

\* C15: an empty history gives an empty table, and every lookup in it
\* returns 0.
C15_EmptyHistory ==
    callArg.history = <<>> =>
        /\ callName = "calculateSubscriptionQuantities" => callRet[1] = EmptyObject
        /\ callName = "getSubscriptionQuantity" =>
              (callRet[1] = EmptyObject /\ callRet[2] = Num(0))

C15_Witness ==
    /\ callArg.history = <<>>
    /\ callArg.timestamp = Timestamp(2024, 7, 16, 14, 0, 0)
    /\ callName = "getSubscriptionQuantity"
    /\ callRet = <<EmptyObject, Num(0)>>

----------------------------------------------------------------------------
(* Claims about repeated calls and the arguments (checked under SpecRepeat) *)

\* C16: a second call on the same arguments returns the same records as the
\* first: the running total starts from 0 again.
C16_SecondCallSameOutput ==
    (returned /\ callName = "calculateSavingsForPeriods") => results = callRet[1]

\* the second call has returned two records with a non-zero total
C16_Witness ==
    /\ returned
    /\ callName = "calculateSavingsForPeriods"
    /\ Len(callRet[1]) = 2
    /\ callRet[1][2].cumulativeSavings # Num(0)
    /\ callRet[1][1].cumulativeSavings # callRet[1][2].cumulativeSavings
    /\ results = callRet[1]

\* C18: no step of calculateSavingsForPeriods, the getSubscriptionQuantity
\* calls it makes included, changes the usage sequence, the pricing series
\* or the subscription table.
C18_ArgumentsUnchanged ==
    [][/\ usageData' = usageData
       /\ pricingData' = pricingData
       /\ subscriptionQuantities' = subscriptionQuantities]_vars

\* a call over two usage records and two pricing entries has returned, its
\* subscription quantities read from the table
C18_Witness ==
    /\ returned
    /\ Len(usageData) = 2
    /\ Len(pricingData.timestamps) = 2
    /\ Len(results) = 2
    /\ results[1].subscriptionQuantity = Num(12)
    /\ subscriptionQuantities[Num(17)] = Object1("weekend", Num(12))

----------------------------------------------------------------------------
(* Claims about fetchPricingData (checked under SpecFetch) *)

\* the intervals of the response in order, days without an interval array
\* left out
RECURSIVE ResponseIntervals(_)
ResponseIntervals(days) ==
    IF days = <<>> THEN <<>>
    ELSE (IF days[1].priceDetails.isArray THEN days[1].priceDetails.items ELSE <<>>)
             \o ResponseIntervals(Tail(days))

\* the number written in an interval's price text
WrittenPrice(interval) ==
    IF interval.intervalPrice = PriceText(<<20000>>, FALSE) THEN Num(20000)
    ELSE IF interval.intervalPrice = PriceText(<<-5000>>, FALSE) THEN Num(-5000)
    ELSE NaN

\* C20: the resolved series has as many prices as timestamps; entry i is
\* the start timestamp and the parsed price of the i-th interval of the
\* response; days whose priceDetails is missing or empty add nothing.
C20_ParallelArrays ==
    callName = "fetchPricingData" =>
        LET series == callRet[1]
            intervals == ResponseIntervals(callArg.data)
        IN  /\ Len(series.timestamps) = Len(series.prices)
            /\ Len(series.timestamps) = Len(intervals)
            /\ \A i \in 1..Len(intervals) :
                  /\ series.timestamps[i] = intervals[i].startIntervalTimeStamp
                  /\ series.prices[i] = WrittenPrice(intervals[i])

\* a day without priceDetails, then a day with an unparsable and a negative
\* price
C20_Witness ==
    /\ callName = "fetchPricingData"
    /\ Len(callArg.data) = 2
    /\ ~callArg.data[1].priceDetails.isArray
    /\ callRet[1].timestamps = <<Timestamp(2024, 7, 15, 19, 0, 0),
                                 Timestamp(2024, 7, 15, 18, 0, 0)>>
    /\ callRet[1].prices = <<NaN, Num(-5000)>>

----------------------------------------------------------------------------
(* CsvUpload, in the revision without and the revision with the dataType   *)
(* prop.  A text is a sequence of chunks of characters; a space, a comma,  *)
(* a dollar sign and a line feed are chunks of their own.  callArg is the  *)
(* file of the last handleFileChange, onDataParsedCalls the calls of the   *)
(* onDataParsed prop since then.                                           *)

MaxRows == 2

Ok(value) == [ok |-> TRUE, value |-> value]

Throw(message) == [ok |-> FALSE, message |-> message]

\* String.prototype.split on a one-chunk separator: the pieces between
\* consecutive separators, the start and the end of the text
Split(text, separator) ==
    LET at == {i \in 1..Len(text) : text[i] = separator}
        n == Cardinality(at)
        Position(k) ==
            IF k = 0 THEN 0
            ELSE IF k = n + 1 THEN Len(text) + 1
            ELSE CHOOSE i \in at : Cardinality({j \in at : j <= i}) = k
    IN  [k \in 1..(n + 1) |->
            SubSeq(text, Position(k - 1) + 1, Position(k) - 1)]

RECURSIVE trimStart(_)
trimStart(text) ==
    IF text # <<>> /\ Head(text) = " " THEN trimStart(Tail(text)) ELSE text

RECURSIVE trimEnd(_)
trimEnd(text) ==
    IF text # <<>> /\ text[Len(text)] = " "
    THEN trimEnd(SubSeq(text, 1, Len(text) - 1))
    ELSE text

\* String.prototype.trim
trim(text) == trimEnd(trimStart(text))

\* the characters of a text as one string
RECURSIVE Join(_)
Join(text) == IF text = <<>> THEN "" ELSE Head(text) \o Join(Tail(text))

LowerCaseChunk(chunk) ==
    CASE chunk = "TYPE" -> "type"
      [] chunk = "DATE" -> "date"
      [] chunk = "START TIME" -> "start time"
      [] chunk = "END TIME" -> "end time"
      [] chunk = "USAGE (kWh)" -> "usage (kwh)"
      [] chunk = "COST" -> "cost"
      [] chunk = "NOTES" -> "notes"
      [] OTHER -> chunk

\* String.prototype.toLowerCase
toLowerCase(text) == [i \in 1..Len(text) |-> LowerCaseChunk(text[i])]

\* String.prototype.includes, for a word that is a chunk
includes(text, word) == \E i \in 1..Len(text) : text[i] = word

\* String.prototype.replace(chunk, ''): the first occurrence is removed
RECURSIVE removeFirst(_, _)
removeFirst(text, chunk) ==
    IF text = <<>> THEN <<>>
    ELSE IF Head(text) = chunk THEN Tail(text)
    ELSE <<Head(text)>> \o removeFirst(Tail(text), chunk)

\* what parseFloat sees in a chunk: usage in kWh, cost in cents
ChunkText(chunk) ==
    CASE chunk = "10" -> PriceText(<<10>>, FALSE)
      [] chunk = "2" -> PriceText(<<2>>, FALSE)
      [] chunk = "2.66" -> PriceText(<<266>>, FALSE)
      [] chunk = "0.50" -> PriceText(<<50>>, FALSE)
      [] OTHER -> PriceText(<<>>, TRUE)

\* parseFloat of a trimmed text
parseFloatOfText(text) ==
    IF text = <<>> THEN NaN ELSE parseFloat(ChunkText(Head(text)))

\* the timestamp is built from END TIME
CsvRecordFromEndTime(columns, flags) ==
    LET date == trim(columns[2])
        startTime == trim(columns[4])
        timestamp == date \o <<"T">> \o startTime \o <<":00">>
        usage == parseFloatOfText(trim(columns[5]))
        costStr == trim(columns[6])
        cost == parseFloatOfText(removeFirst(costStr, "$"))
    IN  [f \in {"timestamp", "usage", "cost"} \cup DOMAIN flags |->
            CASE f = "timestamp" -> timestamp
              [] f = "usage" -> usage
              [] f = "cost" -> cost
              [] OTHER -> flags[f]]

\* the object returned by the map callback for a line of 6 columns or more
CsvRecord(columns, flags) ==
    LET date == trim(columns[2])
        startTime == trim(columns[3])
        timestamp == date \o <<"T">> \o startTime \o <<":00">>
        usage == parseFloatOfText(trim(columns[5]))
        costStr == trim(columns[6])
        cost == parseFloatOfText(removeFirst(costStr, "$"))
    IN  [f \in {"timestamp", "usage", "cost"} \cup DOMAIN flags |->
            CASE f = "timestamp" -> timestamp
              [] f = "usage" -> usage
              [] f = "cost" -> cost
              [] OTHER -> flags[f]]

\* a line with too few columns is left out
MapLinesSkippingShort(dataLines, flags) ==
    LET Long(line) == Len(Split(line, ",")) >= 6
        kept == SelectSeq(dataLines, Long)
    IN  Ok([i \in 1..Len(kept) |-> CsvRecord(Split(kept[i], ","), flags)])

\* dataLines.map: the first line with too few columns throws
MapLines(dataLines, flags) ==
    LET short == {i \in 1..Len(dataLines) : Len(Split(dataLines[i], ",")) < 6}
    IN  IF short # {}
        THEN LET first == CHOOSE i \in short : \A j \in short : i <= j
             IN  Throw("Invalid CSV format in line: " \o Join(dataLines[first]))
        ELSE Ok([i \in 1..Len(dataLines) |->
                    CsvRecord(Split(dataLines[i], ","), flags)])

\* csvText.split('\n').filter(line => line.trim() !== '')
NonEmptyLines(csvText) ==
    LET NonEmpty(line) == trim(line) # <<>>
    IN  SelectSeq(Split(csvText, "\n"), NonEmpty)

\* the five header.includes tests
HasExpectedNames(header) ==
    /\ includes(header, "type")
    /\ includes(header, "date")
    /\ includes(header, "start time")
    /\ includes(header, "usage (kwh)")
    /\ includes(header, "cost")

\* parseCSV of the revision without dataType
parseCSV(csvText) ==
    LET lines == NonEmptyLines(csvText)
    IN  IF Len(lines) < 2
        THEN Throw("CSV file must contain a header row and at least one data row")
        ELSE LET header == toLowerCase(lines[1])
                 dataLines == Tail(lines)
                 isHistoricalFormat == HasExpectedNames(header)
             IN  MapLines(dataLines, [isHistorical |-> isHistoricalFormat])

\* parseCSV of the revision with dataType
parseCSVWithDataType(csvText, dataType) ==
    LET lines == NonEmptyLines(csvText)
    IN  IF Len(lines) < 2
        THEN Throw("CSV file must contain a header row and at least one data row")
        ELSE LET header == toLowerCase(lines[1])
                 dataLines == Tail(lines)
                 isExpectedFormat == HasExpectedNames(header)
             IN  IF ~isExpectedFormat
                 THEN Throw("Invalid CSV format. Expected headers: TYPE,DATE,START TIME,END TIME,USAGE (kWh),COST,NOTES")
                 ELSE MapLines(dataLines,
                               [isHistorical |-> dataType = "historical",
                                isCurrentUsage |-> dataType = "current"])

\* the header the upload tooltip asks for, and a header of other names
CsvHeaders ==
    {<<"TYPE", ",", "DATE", ",", "START TIME", ",", "END TIME", ",",
       "USAGE (kWh)", ",", "COST", ",", "NOTES">>,
     <<"timestamp", ",", "kwh", ",", "price">>}

\* a row of 7 columns; a row of 6 columns with spaces around the cells and
\* a usage that is no number; a row of 5 columns; a line of spaces
CsvRows ==
    {<<"Electric usage", ",", "2024-07-15", ",", "17:00", ",", "17:59", ",",
       "10", ",", "$", "2.66", ",", "note">>,
     <<"Electric usage", ",", " ", "2024-07-15", " ", ",", " ", "18:00", ",",
       "18:59", ",", " ", "n/a", " ", ",", "$", "0.50">>,
     <<"Electric usage", ",", "2024-07-15", ",", "19:00", ",", "19:59", ",",
       "2">>,
     <<" ", " ">>}

RECURSIVE JoinLines(_)
JoinLines(lines) ==
    IF lines = <<>> THEN <<>>
    ELSE IF Len(lines) = 1 THEN Head(lines)
    ELSE Head(lines) \o <<"\n">> \o JoinLines(Tail(lines))

\* the empty file, and a header followed by up to MaxRows lines
CsvFiles ==
    {<<>>} \cup
    {JoinLines(<<header>> \o rows) :
        header \in CsvHeaders, rows \in SeqsUpTo(CsvRows, MaxRows)}

DataTypes == {"none", "historical", "current"}

CsvInit ==
    /\ NoCall
    /\ EngineIdle
    /\ AppIdle
    /\ FetchCallIdle
    /\ csvUpload \in {[CsvUploadInitial EXCEPT !.dataType = d] : d \in DataTypes}
    /\ onDataParsedCalls = <<>>

\* handleFileChange up to reader.readAsText(file); without a file it returns
HandleFileChange ==
    /\ csvUpload.reader = null
    /\ \E file \in {String(f) : f \in CsvFiles} \cup {null} :
         /\ callName' = "handleFileChange"
         /\ callArg' = [file |-> file]
         /\ onDataParsedCalls' = <<>>
         /\ csvUpload' =
                IF file = null THEN csvUpload
                ELSE [csvUpload EXCEPT !.isUploading = TRUE, !.error = null,
                                       !.reader = file]
    /\ UNCHANGED <<callRet, engineVars, appVars, fetchCall>>

\* reader.onload
ReaderOnload ==
    /\ csvUpload.reader # null
    /\ LET csvData == csvUpload.reader.value
           parsedData == IF csvUpload.dataType = "none" THEN parseCSV(csvData)
                         ELSE parseCSVWithDataType(csvData, csvUpload.dataType)
       IN  IF parsedData.ok
           THEN /\ onDataParsedCalls' = Append(onDataParsedCalls, parsedData.value)
                /\ csvUpload' = [csvUpload EXCEPT !.isUploading = FALSE,
                                                  !.reader = null]
           ELSE /\ csvUpload' =
                       [csvUpload EXCEPT
                           !.error = String("Error parsing CSV file: "
                                                \o parsedData.message),
                           !.isUploading = FALSE,
                           !.reader = null]
                /\ UNCHANGED onDataParsedCalls
    /\ UNCHANGED <<callVars, engineVars, appVars, fetchCall>>

\* reader.onerror
ReaderOnerror ==
    /\ csvUpload.reader # null
    /\ csvUpload' = [csvUpload EXCEPT !.error = String("Error reading file"),
                                      !.isUploading = FALSE,
                                      !.reader = null]
    /\ UNCHANGED <<callVars, engineVars, appVars, fetchCall, onDataParsedCalls>>

CsvNext ==
    \/ HandleFileChange
    \/ ReaderOnload
    \/ ReaderOnerror

SpecCsv == CsvInit /\ [][CsvNext]_vars

----------------------------------------------------------------------------
(* Claims on CsvUpload (SpecCsv) *)

FileChosen == callName = "handleFileChange" /\ callArg.file # null

\* the upload of the chosen file has ended, in onload or in onerror
UploadCompleted == FileChosen /\ csvUpload.reader = null

IsBlank(line) == \A i \in 1..Len(line) : line[i] = " "

\* the lines of the file that hold something else than spaces
FileLines(text) ==
    LET NotBlank(line) == ~IsBlank(line)
    IN  SelectSeq(Split(text, "\n"), NotBlank)

\* the lines after the header line
DataRows(text) ==
    IF FileLines(text) = <<>> THEN <<>> ELSE Tail(FileLines(text))

\* the k-th column of a row, without the spaces around it
Cell(row, k) == trim(Split(row, ",")[k])

NumericChunks == {"10", "2", "2.66", "0.50"}

IsNumeric(cell) == cell # <<>> /\ Head(cell) \in NumericChunks

\* what makes parseCSV throw
Malformed(text, dataType) ==
    \/ Len(FileLines(text)) < 2
    \/ /\ dataType # "none"
       /\ ~HasExpectedNames(toLowerCase(FileLines(text)[1]))
    \/ \E i \in 1..Len(DataRows(text)) : Len(Split(DataRows(text)[i], ",")) < 6

\* C21: every record handed to onDataParsed is built from its own data row:
\* the timestamp is the DATE cell, "T", the START TIME cell and ":00", the
\* usage is parseFloat of the USAGE cell, NaN when that cell is no number;
\* and a file is turned down only for its shape, never for such a cell.
C21_RecordFromColumns ==
    /\ \A c \in 1..Len(onDataParsedCalls) :
         LET records == onDataParsedCalls[c]
             rows == DataRows(callArg.file.value)
         IN  /\ Len(records) = Len(rows)
             /\ \A i \in 1..Len(rows) :
                  /\ records[i].timestamp =
                         Cell(rows[i], 2) \o <<"T">> \o Cell(rows[i], 3) \o <<":00">>
                  /\ records[i].usage = parseFloatOfText(Cell(rows[i], 5))
                  /\ ~IsNumeric(Cell(rows[i], 5)) => records[i].usage = NaN
    /\ (UploadCompleted /\ csvUpload.error = null) => Len(onDataParsedCalls) = 1
    /\ (UploadCompleted
            /\ csvUpload.error \notin {null, String("Error reading file")})
        => Malformed(callArg.file.value, csvUpload.dataType)

\* a file of two rows has been parsed and its second row, whose usage cell
\* is "n/a", has become a record with a NaN usage
C21_Witness ==
    /\ UploadCompleted
    /\ Len(onDataParsedCalls) = 1
    /\ Len(onDataParsedCalls[1]) = 2
    /\ onDataParsedCalls[1][1].usage = Num(10)
    /\ onDataParsedCalls[1][2].usage = NaN
    /\ onDataParsedCalls[1][2].timestamp = <<"2024-07-15", "T", "18:00", ":00">>

\* C29: parsing is all-or-nothing: isUploading is false whenever no read is
\* in progress; after the upload of a file with fewer than two non-empty
\* lines, with (in the revision with dataType) a header that lacks the
\* expected names, or with a data row of fewer than 6 columns, onDataParsed
\* has not been called and the error is set; and onDataParsed is called at
\* most once, with one record for every data row.
C29_AllOrNothing ==
    /\ csvUpload.reader = null => ~csvUpload.isUploading
    /\ csvUpload.reader # null => onDataParsedCalls = <<>>
    /\ UploadCompleted =>
         /\ Malformed(callArg.file.value, csvUpload.dataType) =>
              /\ onDataParsedCalls = <<>>
              /\ csvUpload.error # null
         /\ onDataParsedCalls # <<>> =>
              /\ Len(onDataParsedCalls) = 1
              /\ Len(onDataParsedCalls[1]) = Len(DataRows(callArg.file.value))

\* a file whose first data row is complete and whose second has 5 columns
\* has been turned down as a whole
C29_Witness ==
    /\ UploadCompleted
    /\ Len(DataRows(callArg.file.value)) = 2
    /\ Len(Split(DataRows(callArg.file.value)[1], ",")) >= 6
    /\ Len(Split(DataRows(callArg.file.value)[2], ",")) < 6
    /\ onDataParsedCalls = <<>>
    /\ csvUpload.error # null
    /\ csvUpload.error # String("Error reading file")
    /\ ~csvUpload.isUploading

----------------------------------------------------------------------------
(* SavingsChart: the split of one savings record into a base-rate and a    *)
(* flex-rate part, in the bars, in the tooltip and in the totals.          *)

\* x || 0 on a number: 0 and NaN are falsy
OrZero(x) == IF x.nan \/ x.v = 0 THEN Num(0) ELSE x

\* a > b on numbers: false when either is NaN
Gt(a, b) == ~a.nan /\ ~b.nan /\ a.v > b.v

\* Math.min and Math.max of two numbers: NaN when either is NaN
MathMin(a, b) == IF a.nan \/ b.nan THEN NaN ELSE IF a.v <= b.v THEN a ELSE b

MathMax(a, b) == IF a.nan \/ b.nan THEN NaN ELSE IF a.v >= b.v THEN a ELSE b

\* the two bar datasets of createChart for a timestamp that has a record
ChartBars(savingsItem) ==
    [baseRateUsage |->
         MathMin(savingsItem.usageKWh, savingsItem.subscriptionQuantity),
     flexRateUsage |->
         MathMax(Num(0), Sub(savingsItem.usageKWh, savingsItem.subscriptionQuantity))]

\* the flex part is charged at the TOU rate
TooltipCostsAtTouRate(savingsItem) ==
    LET baseRateUsage == MathMin(savingsItem.usageKWh, savingsItem.subscriptionQuantity)
        flexRateUsage == MathMax(Num(0), Sub(savingsItem.usageKWh,
                                             savingsItem.subscriptionQuantity))
        baseRateCostPerKWh == OrZero(savingsItem.touRate)
        subscriptionCost == Mul(baseRateUsage, baseRateCostPerKWh)
        flexCost == Mul(flexRateUsage, baseRateCostPerKWh)
        actualCost == Add(subscriptionCost, flexCost)
        totalSavings == Sub(savingsItem.touCost, actualCost)
    IN  [baseRateUsage |-> baseRateUsage, flexRateUsage |-> flexRateUsage,
         actualCost |-> actualCost, totalSavings |-> totalSavings]

\* the tooltip's external handler for a timestamp that has a record
TooltipCosts(savingsItem) ==
    LET baseRateUsage == MathMin(savingsItem.usageKWh, savingsItem.subscriptionQuantity)
        flexRateUsage == MathMax(Num(0), Sub(savingsItem.usageKWh,
                                             savingsItem.subscriptionQuantity))
        baseRateCostPerKWh == OrZero(savingsItem.touRate)
        flexRateCostPerKWh == OrZero(savingsItem.dynamicRate)
        subscriptionCost == Mul(baseRateUsage, baseRateCostPerKWh)
        flexCost == Mul(flexRateUsage, flexRateCostPerKWh)
        actualCost == Add(subscriptionCost, flexCost)
        totalSavings == Sub(savingsItem.touCost, actualCost)
    IN  [baseRateUsage |-> baseRateUsage, flexRateUsage |-> flexRateUsage,
         actualCost |-> actualCost, totalSavings |-> totalSavings]

\* the forEach body of calculateTotalSavings on fresh accumulators
TotalsHour(item) ==
    LET hasFlexUsage == Gt(OrZero(item.usageKWh), OrZero(item.subscriptionQuantity))
        baseRateUsage == MathMin(OrZero(item.usageKWh), OrZero(item.subscriptionQuantity))
        flexRateUsage == MathMax(Num(0), Sub(OrZero(item.usageKWh),
                                             OrZero(item.subscriptionQuantity)))
        subscriptionCost == Mul(baseRateUsage, OrZero(item.touRate))
        flexCost == Mul(flexRateUsage, OrZero(item.dynamicRate))
        actualCost == Add(subscriptionCost, flexCost)
        hourSavings == Sub(OrZero(item.touCost), actualCost)
    IN  IF hasFlexUsage
        THEN [contributingHourCount |-> 1,
              actualCost |-> actualCost,
              contributingSavings |-> Add(Num(0), hourSavings),
              contributingTouCost |-> Add(Num(0), OrZero(item.touCost))]
        ELSE [contributingHourCount |-> 0,
              contributingSavings |-> Num(0),
              contributingTouCost |-> Num(0)]

\* kWh; NaN is the parseFloat of a cell that is no number
ChartUsageValues == {Num(2), Num(8), Num(10), NaN}

\* 1e-5 $/kWh; NaN is the parseFloat of a price that is no number
ChartPriceValues == {Num(20000), Num(-5000), Num(0), NaN}

\* a weekday average of 8 kWh for hour 17, the average of a history whose
\* usage is NaN, and no history
ChartSubscriptionTables ==
    {Object1(Num(17), Object1("weekday", Num(8))),
     Object1(Num(17), Object1("weekday", NaN)),
     EmptyObject}

\* the records the engine emits for Monday 2024-07-15 17:00
ChartRecords ==
    {calculateSavings(Timestamp(2024, 7, 15, 17, 0, 0), usage, price, sq) :
        usage \in ChartUsageValues, price \in ChartPriceValues,
        sq \in ChartSubscriptionTables}

ChartInit ==
    /\ callName = "none"
    /\ callArg \in [savingsItem : ChartRecords]
    /\ callRet = <<>>
    /\ EngineIdle
    /\ UiIdle

CallChartBars ==
    /\ callName = "none"
    /\ callName' = "createChart"
    /\ callRet' = <<ChartBars(callArg.savingsItem)>>
    /\ UNCHANGED <<callArg, engineVars, uiVars>>

CallTooltip ==
    /\ callName = "none"
    /\ callName' = "tooltip"
    /\ callRet' = <<TooltipCosts(callArg.savingsItem)>>
    /\ UNCHANGED <<callArg, engineVars, uiVars>>

CallTotalsHour ==
    /\ callName = "none"
    /\ callName' = "calculateTotalSavings"
    /\ callRet' = <<TotalsHour(callArg.savingsItem)>>
    /\ UNCHANGED <<callArg, engineVars, uiVars>>

ChartNext ==
    \/ CallChartBars
    \/ CallTooltip
    \/ CallTotalsHour

SpecChart == ChartInit /\ [][ChartNext]_vars

----------------------------------------------------------------------------
(* Claims on the SavingsChart formula (SpecChart) *)

\* subscription x touRate + (usage - subscription) x dynamicRate
SplitCost(r) ==
    Add(Mul(r.subscriptionQuantity, r.touRate),
        Mul(Sub(r.usageKWh, r.subscriptionQuantity), r.dynamicRate))

----------------------------------------------------------------------------
(* findLowestPriceIndicesPerDay.  Indices count from 0 as in the source.   *)

\* moment(timestamp).format('YYYY-MM-DD'), modelled by the fields it prints
formatDay(timestamp) == <<timestamp.year, timestamp.month, timestamp.day>>

\* the elements of a set of integers in ascending order
Ascending(S) ==
    [k \in 1..Cardinality(S) |->
        CHOOSE i \in S : Cardinality({j \in S : j <= i}) = k]

\* the keys of dayGroups in insertion order: a date enters dayGroups at the
\* first timestamp that has it
DayKeys(timestamps) ==
    LET first == {i \in 1..Len(timestamps) :
                     \A j \in 1..(i - 1) :
                         formatDay(timestamps[j]) # formatDay(timestamps[i])}
    IN  [k \in 1..Cardinality(first) |-> formatDay(timestamps[Ascending(first)[k]])]

\* day.prices.map: one object for every index pushed to the day's group
PriceObjects(timestamps, prices, date) ==
    LET indices == Ascending({i \in 1..Len(timestamps) :
                                 formatDay(timestamps[i]) = date})
    IN  [k \in 1..Len(indices) |->
            LET hour == timestamps[indices[k]].hours
            IN  [originalIndex |-> indices[k] - 1,
                 price |-> prices[indices[k]],
                 hour |-> hour,
                 isDaytime |-> hour >= 6 /\ hour < 18]]

\* Array.prototype.sort((a, b) => a.price - b.price): ascending and stable
SortByPrice(objects) ==
    LET Before(j, k) ==
            \/ objects[j].price.v < objects[k].price.v
            \/ objects[j].price.v = objects[k].price.v /\ j < k
        Rank(k) == 1 + Cardinality({j \in 1..Len(objects) : Before(j, k)})
    IN  [r \in 1..Len(objects) |->
            objects[CHOOSE k \in 1..Len(objects) : Rank(k) = r]]

\* the body of Object.values(dayGroups).forEach
PushLowest(lists, timestamps, prices, date) ==
    LET priceObjects == PriceObjects(timestamps, prices, date)
        IsDay(obj) == obj.isDaytime
        IsNight(obj) == ~obj.isDaytime
        daytimePrices == SortByPrice(SelectSeq(priceObjects, IsDay))
        nighttimePrices == SortByPrice(SelectSeq(priceObjects, IsNight))
        day == IF Len(daytimePrices) > 0
               THEN <<daytimePrices[1].originalIndex>> ELSE <<>>
        night == IF Len(nighttimePrices) > 0
                 THEN <<nighttimePrices[1].originalIndex>> ELSE <<>>
    IN  [lowestIndices |-> lists.lowestIndices \o day \o night,
         daytimeLowIndices |-> lists.daytimeLowIndices \o day,
         nighttimeLowIndices |-> lists.nighttimeLowIndices \o night]

\* Object.values(dayGroups).forEach
RECURSIVE ForEachDay(_, _, _, _)
ForEachDay(lists, timestamps, prices, days) ==
    IF days = <<>> THEN lists
    ELSE ForEachDay(PushLowest(lists, timestamps, prices, Head(days)),
                    timestamps, prices, Tail(days))

\* count is a parameter that the body never reads
findLowestPriceIndicesPerDay(timestamps, prices, count) ==
    LET none == [lowestIndices |-> <<>>, daytimeLowIndices |-> <<>>,
                 nighttimeLowIndices |-> <<>>]
    IN  IF Len(timestamps) = 0 \/ Len(prices) = 0 THEN none
        ELSE ForEachDay(none, timestamps, prices, DayKeys(timestamps))

\* 2024-07-15 at 09:00, 12:00 and 22:00, and 2024-07-16 at 03:00
LowTimestamps ==
    {Timestamp(2024, 7, 15, 9, 0, 0), Timestamp(2024, 7, 15, 12, 0, 0),
     Timestamp(2024, 7, 15, 22, 0, 0), Timestamp(2024, 7, 16, 3, 0, 0)}

\* Chart.createChart asks for 2; 1 is what the body delivers
LowCounts == {1, 2}

LowInit ==
    /\ callName = "none"
    /\ callArg \in {[timestamps |-> series.timestamps, prices |-> series.prices,
                     count |-> count] :
                       series \in PricingSeries(LowTimestamps, PriceValues),
                       count \in LowCounts}
    /\ callRet = <<>>
    /\ EngineIdle
    /\ UiIdle

CallFindLowestPriceIndicesPerDay ==
    /\ callName = "none"
    /\ callName' = "findLowestPriceIndicesPerDay"
    /\ callRet' = <<findLowestPriceIndicesPerDay(callArg.timestamps,
                                                 callArg.prices, callArg.count)>>
    /\ UNCHANGED <<callArg, engineVars, uiVars>>

LowNext == CallFindLowestPriceIndicesPerDay

SpecLow == LowInit /\ [][LowNext]_vars

----------------------------------------------------------------------------
(* Claims on findLowestPriceIndicesPerDay (SpecLow) *)

Range(seq) == {seq[i] : i \in 1..Len(seq)}

Min2(a, b) == IF a <= b THEN a ELSE b

\* the indices (from 0) of a day's daytime or nighttime hours
HoursOfDay(timestamps, date, daytime) ==
    {i - 1 : i \in {k \in 1..Len(timestamps) :
                       /\ formatDay(timestamps[k]) = date
                       /\ (timestamps[k].hours \in 6..17) = daytime}}

\* chosen holds `count` indices of lowest price among the candidates, or
\* all candidates when they are fewer
AreLowest(chosen, candidates, prices, count) ==
    /\ chosen \subseteq candidates
    /\ Cardinality(chosen) = Min2(count, Cardinality(candidates))
    /\ \A i \in chosen : \A j \in candidates \ chosen :
           prices[i + 1].v <= prices[j + 1].v

\* C30 as stated: for every calendar day of the series daytimeLowIndices
\* holds the indices of the `count` lowest daytime prices (hours 6..17) and
\* nighttimeLowIndices those of the `count` lowest nighttime prices,
\* lowestIndices is the union of the two, and all three are empty for an
\* empty series.
C30_CountLowestPerDay ==
    callName = "findLowestPriceIndicesPerDay" =>
        LET ret == callRet[1]
            days == {formatDay(callArg.timestamps[i]) :
                        i \in 1..Len(callArg.timestamps)}
        IN  /\ \A date \in days :
                 /\ AreLowest(Range(ret.daytimeLowIndices)
                                 \cap HoursOfDay(callArg.timestamps, date, TRUE),
                              HoursOfDay(callArg.timestamps, date, TRUE),
                              callArg.prices, callArg.count)
                 /\ AreLowest(Range(ret.nighttimeLowIndices)
                                 \cap HoursOfDay(callArg.timestamps, date, FALSE),
                              HoursOfDay(callArg.timestamps, date, FALSE),
                              callArg.prices, callArg.count)
            /\ Range(ret.lowestIndices) =
                   Range(ret.daytimeLowIndices) \cup Range(ret.nighttimeLowIndices)
            /\ Len(callArg.timestamps) = 0 =>
                   /\ ret.lowestIndices = <<>>
                   /\ ret.daytimeLowIndices = <<>>
                   /\ ret.nighttimeLowIndices = <<>>

----------------------------------------------------------------------------
(* fetchPricingData as a whole: the race of fetch against the 10 second    *)
(* timer, the status test, the read of the body, and the catch block.      *)
(* fetchCall.elapsed counts the seconds since the call.  An error message  *)
(* is a sequence of chunks of characters.                                  *)

TimeoutSeconds == 10

MaxElapsed == 12

\* the caught error is thrown again as it is
CatchRethrowSame(message) == message

\* the catch block: the error is replaced by one with a prefixed message
CatchRethrow(message) == <<"Failed to load data: ">> \o message

Resolved(value) == [status |-> "resolved", value |-> value]

Rejected(message) == [status |-> "rejected", message |-> message]

\* what response.json() can deliver: an object whose data is an array of
\* days, an object without a data array, and a body that is no JSON
ResponseBodies ==
    {[json |-> TRUE, hasData |-> TRUE, data |-> days] :
        days \in SeqsUpTo(FetchDays, 1)}
    \cup {[json |-> TRUE, hasData |-> FALSE, data |-> <<>>],
          [json |-> FALSE, hasData |-> FALSE, data |-> <<>>]}

RequestInit ==
    /\ callName = "none"
    /\ callArg = [startDate |-> "2024-07-15", endDate |-> "2024-07-17"]
    /\ callRet = <<>>
    /\ EngineIdle
    /\ UiIdle

\* from the call to the await of Promise.race: the timer is set first
CallFetchPricingData ==
    /\ fetchCall.phase = "idle"
    /\ callName' = "fetchPricingData"
    /\ fetchCall' = [fetchCall EXCEPT !.phase = "awaitingResponse"]
    /\ UNCHANGED <<callArg, callRet, engineVars, appVars, uploadVars>>

\* a second passes; a timer that is due runs before the next second does
Tick ==
    /\ fetchCall.phase \in {"awaitingResponse", "awaitingBody"}
    /\ fetchCall.elapsed < MaxElapsed
    /\ ~(fetchCall.phase = "awaitingResponse" /\ fetchCall.elapsed >= TimeoutSeconds)
    /\ fetchCall' = [fetchCall EXCEPT !.elapsed = @ + 1]
    /\ UNCHANGED <<callVars, engineVars, appVars, uploadVars>>

\* the setTimeout callback rejects timeoutPromise and with it the race
TimeoutFires ==
    /\ fetchCall.phase = "awaitingResponse"
    /\ fetchCall.elapsed = TimeoutSeconds
    /\ fetchCall' = [fetchCall EXCEPT !.phase = "rejected"]
    /\ callRet' = <<Rejected(CatchRethrow(<<"Request timed out">>))>>
    /\ UNCHANGED <<callName, callArg, engineVars, appVars, uploadVars>>

\* fetch rejects: the network is down
FetchFails ==
    /\ fetchCall.phase = "awaitingResponse"
    /\ fetchCall' = [fetchCall EXCEPT !.phase = "rejected", !.response = "error"]
    /\ callRet' = <<Rejected(CatchRethrow(<<"Failed to fetch">>))>>
    /\ UNCHANGED <<callName, callArg, engineVars, appVars, uploadVars>>

\* the response headers arrive with a status outside 200..299
ResponseNotOk ==
    /\ fetchCall.phase = "awaitingResponse"
    /\ fetchCall' = [fetchCall EXCEPT !.phase = "rejected", !.response = "notOk"]
    /\ callRet' = <<Rejected(CatchRethrow(<<"Network response was not ok">>))>>
    /\ UNCHANGED <<callName, callArg, engineVars, appVars, uploadVars>>

\* the response headers arrive with an ok status: response.json() is awaited
ResponseOk ==
    /\ fetchCall.phase = "awaitingResponse"
    /\ fetchCall' = [fetchCall EXCEPT !.phase = "awaitingBody", !.response = "ok"]
    /\ UNCHANGED <<callVars, engineVars, appVars, uploadVars>>

\* response.json() settles; the rest of the try block runs
BodyRead ==
    /\ fetchCall.phase = "awaitingBody"
    /\ \E body \in ResponseBodies :
         /\ fetchCall' = [fetchCall EXCEPT
                             !.phase = IF body.json /\ body.hasData
                                       THEN "resolved" ELSE "rejected",
                             !.body = body]
         /\ callRet' =
                IF ~body.json
                THEN <<Rejected(CatchRethrow(<<"Unexpected token in JSON">>))>>
                ELSE IF ~body.hasData
                THEN <<Rejected(CatchRethrow(
                         <<"Cannot read properties of undefined (reading 'forEach')">>))>>
                ELSE <<Resolved(ProcessDays([timestamps |-> <<>>, prices |-> <<>>],
                                            body.data))>>
    /\ UNCHANGED <<callName, callArg, engineVars, appVars, uploadVars>>

RequestNext ==
    \/ CallFetchPricingData
    \/ Tick
    \/ TimeoutFires
    \/ FetchFails
    \/ ResponseNotOk
    \/ ResponseOk
    \/ BodyRead

SpecRequest == RequestInit /\ [][RequestNext]_vars

----------------------------------------------------------------------------
(* Claims on fetchPricingData (SpecRequest) *)

Settled == fetchCall.phase \in {"resolved", "rejected"}

HasPrefix(message) == message # <<>> /\ Head(message) = "Failed to load data: "

\* C25: a settled call has resolved to {timestamps, prices} or rejected
\* with a message that starts with "Failed to load data: "; a status that
\* is not ok, a body without a data array and 10 seconds without response
\* headers (then with "Request timed out") all end in the rejection; and
\* the call never waits for the response headers for more than 10 seconds.
C25_ResolvesOrRejectsPrefixed ==
    /\ Settled <=> callRet # <<>>
    /\ Settled =>
         \/ /\ callRet[1].status = "resolved"
            /\ DOMAIN callRet[1].value = {"timestamps", "prices"}
         \/ /\ callRet[1].status = "rejected"
            /\ HasPrefix(callRet[1].message)
    /\ (Settled /\ fetchCall.response = "notOk") => callRet[1].status = "rejected"
    /\ (Settled /\ fetchCall.body # null /\ ~fetchCall.body.hasData)
           => callRet[1].status = "rejected"
    /\ (Settled /\ fetchCall.response = "none") =>
           /\ fetchCall.elapsed = TimeoutSeconds
           /\ callRet[1] = Rejected(<<"Failed to load data: ", "Request timed out">>)
    /\ fetchCall.phase = "awaitingResponse" => fetchCall.elapsed <= TimeoutSeconds

\* no response headers for 10 seconds: the call has rejected
C25_Witness ==
    /\ fetchCall.phase = "rejected"
    /\ fetchCall.response = "none"
    /\ fetchCall.elapsed = TimeoutSeconds
    /\ callRet[1].message = <<"Failed to load data: ", "Request timed out">>

----------------------------------------------------------------------------
(* calculateSavingsForPeriods as the function its callers see *)

\* pricingMap and pricingPatternMap after the first n pricing timestamps
RECURSIVE PricingMapsUpTo(_, _)
PricingMapsUpTo(pricing, n) ==
    IF n = 0 THEN [pricingMap |-> EmptyObject, pricingPatternMap |-> EmptyObject]
    ELSE LET maps == PricingMapsUpTo(pricing, n - 1)
             timestamp == pricing.timestamps[n]
             entry == [price |-> pricing.prices[n], originalTimestamp |-> timestamp]
         IN  [pricingMap |->
                  Put(maps.pricingMap, normalizeTimestamp(timestamp), entry),
              pricingPatternMap |->
                  Put(maps.pricingPatternMap, createTimePattern(timestamp), entry)]

\* usageData.forEach body: the exact match, else the pattern match, else
\* nothing is pushed
PushSavings(acc, dataPoint, maps, sq) ==
    LET normalizedTimestamp == normalizeTimestamp(dataPoint.timestamp)
        timePattern == createTimePattern(dataPoint.timestamp)
        exact == normalizedTimestamp \in DOMAIN maps.pricingMap
        pattern == timePattern \in DOMAIN maps.pricingPatternMap
        pricingInfo == IF exact THEN maps.pricingMap[normalizedTimestamp]
                       ELSE maps.pricingPatternMap[timePattern]
        savingsData == calculateSavings(dataPoint.timestamp, dataPoint.usage,
                                        pricingInfo.price, sq)
        total == Add(acc.cumulativeSavings, savingsData.savings)
    IN  IF exact \/ pattern
        THEN [results |-> Append(acc.results, SavingsRecord(savingsData, total)),
              cumulativeSavings |-> total]
        ELSE acc

\* results and cumulativeSavings after the first n usage records
RECURSIVE SavingsUpTo(_, _, _, _)
SavingsUpTo(usage, n, maps, sq) ==
    IF n = 0 THEN [results |-> <<>>, cumulativeSavings |-> Num(0)]
    ELSE PushSavings(SavingsUpTo(usage, n - 1, maps, sq), usage[n], maps, sq)

calculateSavingsForPeriods(usage, pricing, sq) ==
    SavingsUpTo(usage, Len(usage),
                PricingMapsUpTo(pricing, Len(pricing.timestamps)), sq).results

----------------------------------------------------------------------------
(* App: fetches, uploads, the savings effect and bar selection *)

\* fetchData calls in one run
MaxFetches == 2

undefined == [type |-> "undefined"]

\* the range the mount effect computes (yesterday to two days from now, for
\* a page opened on 2024-07-15) and a range picked later
InitialDateRange == [startDate |-> "2024-07-14", endDate |-> "2024-07-17"]
LaterDateRange == [startDate |-> "2024-07-21", endDate |-> "2024-07-24"]
DateRanges == {InitialDateRange, LaterDateRange}

\* what fetchPricingData resolves to for a range when the request succeeds
ServerPricing(range) ==
    IF range = InitialDateRange
    THEN [timestamps |-> <<Timestamp(2024, 7, 15, 18, 0, 0),
                           Timestamp(2024, 7, 15, 19, 0, 0)>>,
          prices |-> <<Num(20000), Num(-5000)>>]
    ELSE [timestamps |-> <<Timestamp(2024, 7, 22, 17, 0, 0),
                           Timestamp(2024, 7, 22, 18, 0, 0)>>,
          prices |-> <<Num(30000), Num(10000)>>]

\* err.message of a rejected fetchPricingData
FetchFailures ==
    {CatchRethrow(<<"Request timed out">>), CatchRethrow(<<"Failed to fetch">>)}

\* one parsed row; the timestamp string is held as its calendar fields
UploadedRow(timestamp, usage, flags) ==
    [f \in {"timestamp", "usage", "cost"} \cup DOMAIN flags |->
        CASE f = "timestamp" -> timestamp
          [] f = "usage" -> usage
          [] f = "cost" -> Num(0)
          [] OTHER -> flags[f]]

\* rows of the upload marked "current": Monday 2024-07-15, 17:00 and 18:00
CurrentUploads ==
    LET flags == [isHistorical |-> FALSE, isCurrentUsage |-> TRUE]
    IN  {<<UploadedRow(Timestamp(2024, 7, 15, 17, 0, 0), Num(10), flags),
           UploadedRow(Timestamp(2024, 7, 15, 18, 0, 0), Num(2), flags)>>,
         <<UploadedRow(Timestamp(2024, 7, 15, 18, 0, 0), Num(10), flags)>>}

\* rows of last year's Monday 2023-07-17, marked historical; and the same
\* file read as rows that are not historical (isHistorical false)
HistoricalUploads ==
    LET historical == [isHistorical |-> TRUE, isCurrentUsage |-> FALSE]
        other == [isHistorical |-> FALSE]
    IN  {<<UploadedRow(Timestamp(2023, 7, 17, 17, 0, 0), Num(8), historical),
           UploadedRow(Timestamp(2023, 7, 17, 18, 0, 0), Num(10), historical)>>,
         <<UploadedRow(Timestamp(2023, 7, 17, 17, 0, 0), Num(8), other),
           UploadedRow(Timestamp(2023, 7, 17, 18, 0, 0), Num(10), other)>>}

\* data.filter(item => item[flag]); a missing property is undefined
RECURSIVE FilterByFlag(_, _)
FilterByFlag(data, flag) ==
    IF data = <<>> THEN <<>>
    ELSE LET item == Head(data)
             rest == FilterByFlag(Tail(data), flag)
         IN  IF flag \in DOMAIN item /\ item[flag] THEN <<item>> \o rest
             ELSE rest

\* new Date(timestamp).getTime() of a valid date, in seconds
getTime(date) ==
    ((DaysFromCivil(date.year, date.month, date.day) * 24 + date.hours) * 60
        + date.minutes) * 60 + date.seconds

MathAbs(x) == IF x < 0 THEN -x ELSE x

\* currentUsageData.sort((a, b) => Math.abs(timeA - targetTime) -
\* Math.abs(timeB - targetTime)): the array after the stable in-place sort
\* (all timestamps valid)
SortByDistance(array, timestamp) ==
    LET targetTime == getTime(NewDate(timestamp))
        distance(k) == MathAbs(getTime(NewDate(array[k].timestamp)) - targetTime)
        Before(j, k) ==
            \/ distance(j) < distance(k)
            \/ distance(j) = distance(k) /\ j < k
        Rank(k) == 1 + Cardinality({j \in 1..Len(array) : Before(j, k)})
    IN  [r \in 1..Len(array) |->
            array[CHOOSE k \in 1..Len(array) : Rank(k) = r]]

\* array.find(item => item.timestamp === timestamp), undefined if none
FindByTimestamp(array, timestamp) ==
    LET found == {k \in 1..Len(array) : array[k].timestamp = timestamp}
    IN  IF found = {} THEN undefined
        ELSE array[CHOOSE k \in found : \A j \in found : k <= j]

\* Object.keys(obj).length
KeyCount(obj) == Cardinality(DOMAIN obj)

\* what the savings effect hands to setSavingsData
SavingsEffectResult(a) ==
    IF /\ Len(a.currentUsageData) > 0
       /\ Len(a.chartData.timestamps) > 0
       /\ KeyCount(a.subscriptionQuantities) > 0
    THEN calculateSavingsForPeriods(a.currentUsageData, a.chartData,
                                    a.subscriptionQuantities)
    ELSE <<>>

\* fetchData up to its await
FetchDataStarted(a) == [a EXCEPT !.isLoading = TRUE, !.error = null]

\* a fetchData call at its await: its arguments; whether an earlier call was
\* still waiting when it started; and, once rejected, the error caught
PendingRequest(range) ==
    [startDate |-> range.startDate, endDate |-> range.endDate,
     status |-> "pending",
     overlapped |-> \E i \in 1..Len(requests) : requests[i].status = "pending",
     err |-> null]

\* the effects have run and the mount effect has started the first fetch
Interactive == app.initialFetchDone /\ ~savingsEffectPending

AppInit ==
    /\ NoCall
    /\ EngineIdle
    /\ UiIdle

\* both effects after the first render: the mount effect sets the date range
\* and starts the first fetch, the savings effect sees three empty inputs
Mount ==
    /\ ~app.initialFetchDone
    /\ app' = [FetchDataStarted(app) EXCEPT
                   !.dateRange = InitialDateRange,
                   !.initialFetchDone = TRUE,
                   !.savingsData = SavingsEffectResult(app)]
    /\ requests' = Append(requests, PendingRequest(InitialDateRange))
    /\ UNCHANGED <<savingsEffectPending, engineVars, callVars, uploadVars,
                   fetchCall>>

HandleDateChange(startDate, endDate) ==
    /\ Interactive
    /\ Len(requests) < MaxFetches
    /\ IF app.dateRange.startDate = startDate /\ app.dateRange.endDate = endDate
       THEN UNCHANGED <<app, requests>>
       ELSE /\ app' = [FetchDataStarted(app) EXCEPT
                           !.dateRange = [startDate |-> startDate,
                                          endDate |-> endDate]]
            /\ requests' = Append(requests,
                                  PendingRequest([startDate |-> startDate,
                                                  endDate |-> endDate]))
    /\ UNCHANGED <<savingsEffectPending, engineVars, callVars, uploadVars,
                   fetchCall>>

\* the await of request i resolves: setChartData(data), then finally
FetchDataResolved(i) ==
    /\ Interactive
    /\ requests[i].status = "pending"
    /\ app' = [app EXCEPT
                   !.chartData = ServerPricing([startDate |-> requests[i].startDate,
                                                endDate |-> requests[i].endDate]),
                   !.isLoading = FALSE]
    /\ requests' = [requests EXCEPT ![i].status = "resolved"]
    /\ savingsEffectPending' = TRUE
    /\ UNCHANGED <<engineVars, callVars, uploadVars, fetchCall>>

\* the failure also replaces the chart by the empty series
FetchDataRejectedClearingChart(i, message) ==
    /\ Interactive
    /\ requests[i].status = "pending"
    /\ app' = [app EXCEPT !.error = String(message), !.isLoading = FALSE,
                          !.chartData = AppInitial.chartData]
    /\ requests' = [requests EXCEPT ![i].status = "rejected",
                                    ![i].err = String(message)]
    /\ UNCHANGED <<savingsEffectPending, engineVars, callVars, uploadVars,
                   fetchCall>>

\* the await of request i rejects: setError(err.message), then finally
FetchDataRejected(i, message) ==
    /\ Interactive
    /\ requests[i].status = "pending"
    /\ app' = [app EXCEPT !.error = String(message), !.isLoading = FALSE]
    /\ requests' = [requests EXCEPT ![i].status = "rejected",
                                    ![i].err = String(message)]
    /\ UNCHANGED <<savingsEffectPending, engineVars, callVars, uploadVars,
                   fetchCall>>

\* the table is replaced only when the upload has historical rows; a new
\* table object makes the savings effect run again
HandleHistoricalDataParsed(data) ==
    LET historicalData == FilterByFlag(data, "isHistorical")
    IN  /\ Interactive
        /\ app' = [app EXCEPT
                       !.historicalUsageData = historicalData,
                       !.selectedData = null,
                       !.subscriptionQuantities =
                           IF Len(historicalData) > 0
                           THEN calculateSubscriptionQuantities(historicalData)
                           ELSE @]
        /\ savingsEffectPending' = (Len(historicalData) > 0)
        /\ UNCHANGED <<requests, engineVars, callVars, uploadVars, fetchCall>>

HandleCurrentUsageDataParsed(data) ==
    LET currentData == FilterByFlag(data, "isCurrentUsage")
    IN  /\ Interactive
        /\ app' = [app EXCEPT !.currentUsageData = currentData,
                              !.selectedData = null]
        /\ savingsEffectPending' = TRUE
        /\ UNCHANGED <<requests, engineVars, callVars, uploadVars, fetchCall>>

\* the effect with dependencies [currentUsageData, chartData,
\* subscriptionQuantities], run after the render in which one was replaced
SavingsEffect ==
    /\ savingsEffectPending
    /\ app' = [app EXCEPT !.savingsData = SavingsEffectResult(app)]
    /\ savingsEffectPending' = FALSE
    /\ UNCHANGED <<requests, engineVars, callVars, uploadVars, fetchCall>>


\* !value for the values a subscriptionQuantity property can hold
IsFalsy(value) == value = undefined \/ value = Num(0) \/ value = NaN

\* timestamps are compared as strings; two timestamps of one format are the
\* same string exactly when their calendar fields agree
HandleBarSelect(timestamp, usage, price) ==
    /\ Interactive
    /\ IF timestamp # null /\ price # undefined
       THEN LET found == FindByTimestamp(app.currentUsageData, timestamp)
                searches == usage \in {null, undefined}
                                /\ Len(app.currentUsageData) > 0
                sorted == IF searches /\ found = undefined
                          THEN SortByDistance(app.currentUsageData, timestamp)
                          ELSE app.currentUsageData
                currentDataPoint == IF found = undefined THEN sorted[1] ELSE found
                newUsage == IF usage \notin {null, undefined} THEN usage
                            ELSE IF Len(app.currentUsageData) > 0
                                 THEN currentDataPoint.usage
                                 ELSE Num(0)
                savingsItem == FindByTimestamp(app.savingsData, timestamp)
                fromSavings == IF savingsItem = undefined THEN undefined
                               ELSE savingsItem.subscriptionQuantity
                hour == getHours(NewDate(timestamp))
                subscriptionQuantity ==
                    IF IsFalsy(fromSavings) /\ KeyCount(app.subscriptionQuantities) > 0
                    THEN (IF hour \in DOMAIN app.subscriptionQuantities
                          THEN app.subscriptionQuantities[hour]
                          ELSE Num(0))
                    ELSE fromSavings
            IN  app' = [app EXCEPT
                            !.selectedTimestamp = timestamp,
                            !.currentUsageData = sorted,
                            !.selectedData =
                                [timestamp |-> timestamp, price |-> price,
                                 usage |-> newUsage,
                                 subscriptionQuantity |-> subscriptionQuantity]]
       ELSE app' = [app EXCEPT !.selectedData = null,
                               !.selectedTimestamp = null]
    /\ UNCHANGED <<requests, savingsEffectPending, engineVars, callVars,
                   uploadVars, fetchCall>>

\* Chart onClick: a bar of the price chart, or outside the bars
ChartClicks ==
    {<<app.chartData.timestamps[k], null, app.chartData.prices[k]>> :
         k \in 1..Len(app.chartData.timestamps)}
        \cup {<<null, null, null>>}

\* SavingsChart onClick: a bar that has a savings record, or outside the bars
SavingsChartClicks ==
    {<<app.chartData.timestamps[k],
       FindByTimestamp(app.savingsData, app.chartData.timestamps[k]).usageKWh,
       null>> :
         k \in {j \in 1..Len(app.chartData.timestamps) :
                   FindByTimestamp(app.savingsData,
                                   app.chartData.timestamps[j]) # undefined}}
        \cup {<<null, undefined, undefined>>}

AppNext ==
    \/ Mount
    \/ \E range \in DateRanges : HandleDateChange(range.startDate, range.endDate)
    \/ \E i \in 1..Len(requests) : FetchDataResolved(i)
    \/ \E i \in 1..Len(requests), message \in FetchFailures :
           FetchDataRejected(i, message)
    \/ \E data \in HistoricalUploads : HandleHistoricalDataParsed(data)
    \/ \E data \in CurrentUploads : HandleCurrentUsageDataParsed(data)
    \/ SavingsEffect
    \/ \E click \in ChartClicks \cup SavingsChartClicks :
           HandleBarSelect(click[1], click[2], click[3])

SpecApp == AppInit /\ [][AppNext]_vars

----------------------------------------------------------------------------
(* App: claims *)

RangeOf(request) ==
    [startDate |-> request.startDate, endDate |-> request.endDate]

\* C23: once the savings effect has run for the current state, savingsData
\* is empty when currentUsageData, chartData.timestamps or
\* subscriptionQuantities is empty, and is otherwise
\* calculateSavingsForPeriods of the current three values.
C23_SavingsNeverStale ==
    ~savingsEffectPending =>
        app.savingsData =
            IF \/ Len(app.currentUsageData) = 0
               \/ Len(app.chartData.timestamps) = 0
               \/ KeyCount(app.subscriptionQuantities) = 0
            THEN <<>>
            ELSE calculateSavingsForPeriods(app.currentUsageData, app.chartData,
                                            app.subscriptionQuantities)

C26_LatestRangeWins ==
    (/\ Len(requests) = 2
     /\ requests[2].overlapped
     /\ \A i \in 1..2 : requests[i].status = "resolved")
        => /\ app.dateRange = RangeOf(requests[2])
           /\ app.chartData = ServerPricing(app.dateRange)

\* C27: subscriptionQuantities is calculateSubscriptionQuantities of the
\* stored historicalUsageData, so it is empty when no historical rows are
\* stored.
C27_TableMatchesHistory ==
    app.subscriptionQuantities =
        calculateSubscriptionQuantities(app.historicalUsageData)

\* C28: currentUsageData holds the rows of an upload in the uploaded order
\* (or nothing), whatever bars have been selected.
C28_UploadOrderKept ==
    app.currentUsageData \in
        {<<>>} \cup {FilterByFlag(data, "isCurrentUsage") : data \in CurrentUploads}

====
